---- MODULE Spec2Model ----
(***************************************************************************)
(* Scene-graph tree of lume (packages/lume/src/core): TreeNode and its     *)
(* ImperativeBase overrides, the deferred lifecycle callbacks, traversal,  *)
(* the read accessors, the size resolution driven by the autoruns of       *)
(* ImperativeBase.connectedCallback and the Scene's parent-size observer,  *)
(* the transform written to the two Three.js objects of every node, and    *)
(* the loading and unloading of the WebGL and the CSS rendering.           *)
(***************************************************************************)
EXTENDS Integers, Sequences, FiniteSets, TLC

\* ------------------------------------------------------------------ bounds
\* Number of add / removeNode invocations the callers make in a run (a bulk
\* operation counts one per element it passes on).
MaxCalls == 3
\* Depth of the call stack available to the recursive traverse().
MaxStack == 4
\* Number of property writes and host resizes in a run.
MaxSizeOps == 2
\* Number of writes to the Scene's webgl and enableCss attributes in a run.
MaxToggles == 2

\* --------------------------------------------------------------- universe
\* One Scene, two Nodes and one plain TreeNode.
Nodes == {"s", "a", "b", "t"}

\* The null reference.
NULL == "null"

\* The class of each object: Scene and Node extend ImperativeBase, which
\* extends TreeNode.
Kind(n) ==
    CASE n = "s" -> "Scene"
      [] n = "t" -> "TreeNode"
      [] OTHER -> "Node"

\* childNode instanceof ImperativeBase
IsImperativeBase(n) ==
    Kind(n) \in {"Scene", "Node"}

isScene(n) ==
    Kind(n) = "Scene"

isNode(n) ==
    Kind(n) = "Node"

VARIABLES
    parent,        \* __parent of every node (NULL when none)
    children,      \* __children of every node, in array order
    isConnected,   \* __isConnected of every node
    deferred,      \* closures handed to defer() and not run yet, oldest first
    invoked,       \* lifecycle callbacks invoked by the last step
    scheduled,     \* number of closures handed to defer() so far
    delivered,     \* number of deferred closures run so far
    calls,         \* number of structural calls made so far
    lastCall,      \* the last call: operation, receiver, argument, outcome
    ret,           \* the array the last subnodes read returned
    sizeMode,      \* sizeMode of every node, per axis
    size,          \* size of every node, per axis
    calculatedSize,    \* calculatedSize of every node, per axis
    live,          \* connectedCallback has run (autoruns registered, not stopped)
    deps,          \* observables the parent-size autorun of a node read last
    pending,       \* autoruns scheduled to re-run, in scheduling order
    nodesToBeRendered, \* nodes handed to Motor.setNodeToBeRendered
    elementParentSize, \* the Scene's _elementParentSize (and #parentSize)
    hostSize,      \* content-box size of the element the Scene is mounted in
    observing,     \* the Scene's #resizeObserver is set
    staleObserver, \* an earlier ResizeObserver was replaced without disconnect
    observePending,    \* a ResizeObserver has an observation to deliver
    composed,      \* childComposedCallback calls the host has yet to make
    sizeOps,       \* number of property writes and host resizes so far
    webgl,         \* the Scene's webgl attribute
    enableCss,     \* the Scene's enableCss attribute
    glLoaded,      \* _glLoaded of every node
    cssLoaded,     \* _cssLoaded of every node
    three,         \* __three of every node: the Object3D for WebGL rendering
    threeCSS,      \* __threeCSS of every node: the Object3D for CSS rendering
    scene,         \* _scene of every node: the Scene the scene getter cached
    position,      \* position of every node, per axis
    alignPoint,    \* alignPoint of every node, per axis
    mountPoint,    \* mountPoint of every node, per axis
    uncomposed,    \* childUncomposedCallback calls the host has yet to make
    toggles,       \* number of writes to webgl and enableCss so far
    switchedOff,   \* history: the renderings the Scene has been unloaded for
    willBeRendered,    \* _willBeRendered of every node
    ticks,         \* animation-frame callbacks Motor has requested and not run
    listening,     \* the nodes' events have a listener
    emitted,       \* flag changes and events of the last step, in order
    gltf,          \* the GltfModelBehavior of Node b
    cameras,       \* the Scene's #activeCameras and #threeCamera
    rotation,      \* rotation of every node, per axis, in degrees
    delivery,      \* the GL events handed to defer() and those delivered
    sceneGraph     \* the stream-based SceneGraphNodes and their roots' registries

treeVars ==
    <<parent, children, isConnected, deferred, invoked, scheduled, delivered,
      calls, lastCall, ret>>

sizeVars ==
    <<sizeMode, size, calculatedSize, live, deps, pending, nodesToBeRendered,
      elementParentSize, hostSize, observing, staleObserver, observePending,
      composed, sizeOps>>

nodeVars ==
    <<webgl, enableCss, glLoaded, cssLoaded, three, threeCSS, scene, position,
      alignPoint, mountPoint, uncomposed, toggles, switchedOff, willBeRendered,
      ticks, listening, emitted, gltf, cameras, rotation,
      delivery>>

gfxVars ==
    <<nodeVars, sceneGraph>>

vars ==
    <<treeVars, sizeVars, gfxVars>>

\* ------------------------------------------------------------ array helpers
\* Array.prototype.indexOf: 0-based, -1 when absent.
IndexOf(seq, x) ==
    IF \E i \in 1..Len(seq) : seq[i] = x
    THEN (CHOOSE i \in 1..Len(seq) : seq[i] = x /\ \A j \in 1..(i - 1) : seq[j] # x) - 1
    ELSE -1

\* Array.prototype.splice(i, 1): a negative i counts from the end.
Splice1(seq, i) ==
    LET from == IF i < 0
                THEN (IF Len(seq) + i < 0 THEN 0 ELSE Len(seq) + i)
                ELSE (IF i > Len(seq) THEN Len(seq) ELSE i)
    IN  IF from + 1 > Len(seq)
        THEN seq
        ELSE SubSeq(seq, 1, from) \o SubSeq(seq, from + 2, Len(seq))

\* The two callbacks one deferred closure invokes, in order.
Callbacks(e) ==
    IF e.type = "connected"
    THEN << [cb |-> "connected", on |-> e.child, arg |-> NULL, id |-> e.id],
            [cb |-> "childConnected", on |-> e.parent, arg |-> e.child, id |-> e.id] >>
    ELSE << [cb |-> "disconnected", on |-> e.child, arg |-> NULL, id |-> e.id],
            [cb |-> "childDisconnected", on |-> e.parent, arg |-> e.child, id |-> e.id] >>

\* defer(fn): the closure is queued behind those already waiting.
defer(st, type, self, childNode) ==
    [st EXCEPT !.deferred = Append(@, [type |-> type, child |-> childNode,
                                       parent |-> self, id |-> st.scheduled + 1]),
               !.scheduled = @ + 1]

\* The program state a call works on, with the call's outcome.
Enter ==
    [parent |-> parent, children |-> children, isConnected |-> isConnected,
     deferred |-> deferred, scheduled |-> scheduled, invoked |-> <<>>,
     result |-> "none", thrown |-> FALSE, ok |-> FALSE,
     sizeMode |-> sizeMode, size |-> size, calculatedSize |-> calculatedSize,
     live |-> live, deps |-> deps, pending |-> pending,
     nodesToBeRendered |-> nodesToBeRendered,
     elementParentSize |-> elementParentSize, observing |-> observing,
     staleObserver |-> staleObserver, observePending |-> observePending,
     composed |-> composed,
     webgl |-> webgl, enableCss |-> enableCss, glLoaded |-> glLoaded,
     cssLoaded |-> cssLoaded, three |-> three, threeCSS |-> threeCSS,
     scene |-> scene, position |-> position, alignPoint |-> alignPoint,
     mountPoint |-> mountPoint, uncomposed |-> uncomposed,
     switchedOff |-> switchedOff, willBeRendered |-> willBeRendered,
     ticks |-> ticks, listening |-> listening, emitted |-> <<>>, gltf |-> gltf,
     cameras |-> cameras, rotation |-> rotation, delivery |-> delivery]

\* ------------------------------------------------------ reactive variables
Axes ==
    {"x", "y", "z"}

XYZ(x, y, z) ==
    [x |-> x, y |-> y, z |-> z]

\* Numbers are kept in fixed point, counted in quarters: Num(1) is 1, 0.5 is
\* one half, and the half of a multiple of 0.5 is exact.
Unit ==
    4

Num(k) ==
    k * Unit

OneHalf ==
    Unit \div 2

\* The product of two numbers.
Mul(a, b) ==
    (a * b) \div Unit

Has(seq, x) ==
    \E i \in 1..Len(seq) : seq[i] = x

\* F applied to the state that st has come to: one step after another.
Then(st, F(_)) ==
    CHOOSE next \in {F(x) : x \in {st}} : TRUE

\* The autoruns a connectedCallback creates that can run again, in creation
\* order: the size autorun, the parent-size autorun and the update autorun of
\* ImperativeBase, then the Scene's webgl, background, enableCss and
\* parent-size-observation autoruns (the environment autorun does what the
\* background autorun does). The rotation and the scale autorun run again
\* on a write of rotation or scale, or of __parent while the node is
\* connected: no action writes the former, and removeNode disconnects the
\* node's element, which stops its autoruns, in the call that writes
\* __parent.
ComputationsOf(n) ==
    LET own == << [node |-> n, fn |-> "size"], [node |-> n, fn |-> "parentSize"],
                  [node |-> n, fn |-> "update"] >>
    IN  IF isScene(n)
        THEN own \o << [node |-> n, fn |-> "webgl"], [node |-> n, fn |-> "background"],
                       [node |-> n, fn |-> "enableCss"], [node |-> n, fn |-> "observe"] >>
        ELSE IF isNode(n) THEN own
        ELSE <<>>

\* The autoruns GltfModelBehavior.loadGL() pushes to #stopFns: the one that
\* sets the decoder path and the one that loads the model.
BehaviorComputations ==
    << [node |-> "b", fn |-> "draco"], [node |-> "b", fn |-> "model"] >>

AllComputations ==
    ComputationsOf("s") \o ComputationsOf("a") \o ComputationsOf("b")
        \o BehaviorComputations

\* The autorun was created and its stop function has not been called.
Running(st, c) ==
    IF c.fn \in {"draco", "model"}
    THEN Has(st.gltf.stopFns, c)
    ELSE st.live[c.node]

\* The reactive variables an autorun read, outside untrack, when it last ran.
Tracked(st, c) ==
    CASE c.fn = "size" -> {<<"sizeMode", c.node>>, <<"size", c.node>>}
      [] c.fn = "parentSize" -> st.deps[c.node]
      [] c.fn = "update" -> {<<"sizeMode", c.node>>, <<"size", c.node>>}
      [] c.fn = "webgl" -> {<<"webgl", c.node>>}
      [] c.fn = "background" -> {<<"webgl", c.node>>}
      [] c.fn = "enableCss" -> {<<"enableCss", c.node>>}
      [] c.fn = "draco" -> {<<"dracoDecoder", c.node>>}
      [] c.fn = "model" ->
            {<<"src", c.node>>, <<"dracoDecoder", c.node>>,
             <<"centerGeometry", c.node>>}
      [] c.fn = "observe" ->
            {<<"sizeMode", c.node>>, <<"enableCss", c.node>>}
                \cup (IF st.enableCss THEN {} ELSE {<<"webgl", c.node>>})

\* Variant: a write schedules a re-run whether or not one is scheduled.
trigger_NoCoalesce(st0, variable) ==
    Then(st0, LAMBDA st :
    LET hit(c) == /\ Running(st, c)
                  /\ variable \in Tracked(st, c)
    IN  [st EXCEPT !.pending = @ \o SelectSeq(AllComputations, hit)])

\* A write to a reactive variable: every running autorun that tracks it is
\* scheduled to re-run, once however many writes precede the re-run.
trigger(st0, variable) ==
    Then(st0, LAMBDA st :
    LET hit(c) == /\ Running(st, c)
                  /\ variable \in Tracked(st, c)
                  /\ ~Has(st.pending, c)
    IN  [st EXCEPT !.pending = @ \o SelectSeq(AllComputations, hit)])

\* childNode.__parent = value (__parent is @reactive)
setParent(st, childNode, value) ==
    trigger([st EXCEPT !.parent[childNode] = value], <<"parent", childNode>>)

\* ------------------------------------------------------------------ sizing
\* Variant: a parentless Scene does not fall back to the size of the element
\* it is mounted in.
getParentSize_NoElementSize(st, n) ==
    IF st.parent[n] # NULL
    THEN st.calculatedSize[st.parent[n]]
    ELSE XYZ(0, 0, 0)

\* _getParentSize(): the Scene's override falls back to the size of the
\* element it is mounted in.
getParentSize(st, n) ==
    IF st.parent[n] # NULL
    THEN st.calculatedSize[st.parent[n]]
    ELSE IF isScene(n) THEN st.elementParentSize ELSE XYZ(0, 0, 0)

\* _calcSize(): literal axes take the node's size, proportional axes the
\* parent size times the node's size; calculatedSize is written.
calcSize(st0, n) ==
    Then(st0, LAMBDA st :
    LET parentSize == getParentSize(st, n)
        new == [ax \in Axes |->
                   IF st.sizeMode[n][ax] = "literal"
                   THEN st.size[n][ax]
                   ELSE Mul(parentSize[ax], st.size[n][ax])]
    IN  trigger([st EXCEPT !.calculatedSize[n] = new], <<"calculatedSize", n>>))

\* Motor.setNodeToBeRendered(node): the node joins the nodes to be rendered;
\* an animation frame is requested unless one is already awaited.
setNodeToBeRendered(st, n) ==
    [st EXCEPT !.nodesToBeRendered = @ \cup {n},
               !.ticks = IF @ = 0 THEN 1 ELSE @]

\* Variant: needsUpdate() that requests an animation frame of its own.
needsUpdate_RequestsFrame(st, n) ==
    [setNodeToBeRendered([st EXCEPT !.willBeRendered[n] = TRUE], n)
        EXCEPT !.ticks = @ + 1]

\* Variant: needsUpdate() that does not set _willBeRendered.
needsUpdate_NoFlag(st, n) ==
    setNodeToBeRendered(st, n)

\* needsUpdate(): this._willBeRendered = true;
\* Motor.setNodeToBeRendered(this)
needsUpdate(st, n) ==
    setNodeToBeRendered([st EXCEPT !.willBeRendered[n] = TRUE], n)

getAlignPoint(st, n) ==
    st.alignPoint[n]

getMountPoint(st, n) ==
    st.mountPoint[n]

getPosition(st, n) ==
    st.position[n]

\* The nodes of the subtree of n, parents before children, siblings in order.
RECURSIVE subtreeOf(_, _, _)
RECURSIVE subtreesOf(_, _, _, _)
subtreeOf(st, n, fuel) ==
    IF fuel = 0
    THEN <<>>
    ELSE <<n>> \o subtreesOf(st, st.children[n], 1, fuel - 1)

subtreesOf(st, kids, i, fuel) ==
    IF i > Len(kids)
    THEN <<>>
    ELSE subtreeOf(st, kids[i], fuel) \o subtreesOf(st, kids, i + 1, fuel)

\* ------------------------------------------------------- Three.js objects
\* No Object3D: __three / __threeCSS is undefined.
NoObject ==
    [made |-> FALSE, parent |-> NULL, children |-> <<>>,
     position |-> XYZ(0, 0, 0), matrixWorld |-> XYZ(0, 0, 0),
     parentWorld |-> XYZ(0, 0, 0), rotation |-> XYZ(0, 0, 0)]

\* new Object3D(): no parent, no children, at the origin. Only the
\* translation of its matrices is kept; parentWorld is the world matrix of a
\* parent that no node holds any more; rotation is the Euler rotation in
\* units of pi / 180 rad.
NewObject ==
    [made |-> TRUE, parent |-> NULL, children |-> <<>>,
     position |-> XYZ(0, 0, 0), matrixWorld |-> XYZ(0, 0, 0),
     parentWorld |-> XYZ(0, 0, 0), rotation |-> XYZ(0, 0, 0)]

\* The parent of an object whose parent was an object no node holds any more;
\* the object a Scene held was a Three.js Scene.
DisposedOf(n) ==
    IF isScene(n) THEN "disposedScene" ELSE "disposed"

\* The two renderings: the field holding the node's object, the field telling
\* that the rendering is loaded, and the Scene attribute that enables it.
GL ==
    [obj |-> "three", loaded |-> "glLoaded", flag |-> "webgl"]

CSS ==
    [obj |-> "threeCSS", loaded |-> "cssLoaded", flag |-> "enableCss"]

\* An entry of the log of a step is kept while the events have a listener.
note(st, entry) ==
    IF st.listening THEN [st EXCEPT !.emitted = Append(@, entry)] ELSE st

\* this._glLoaded = value / this._cssLoaded = value
setLoaded(st, self, B, value) ==
    note([st EXCEPT ![B.loaded][self] = value],
         [node |-> self, type |-> "set", name |-> B.loaded, value |-> value])

\* this.emit(name, this)
emit(st, self, name) ==
    note(st, [node |-> self, type |-> "emit", name |-> name, value |-> TRUE])

\* ------------------------------------------- stream-based SceneGraphNode
\* The root nodes: SceneGraphNodes that also carry objects, specs and
\* dirtyObjects, the registries the handlers of set() write to.
GraphRoots ==
    {"r1", "r2"}

\* The _node of the view that is handed to add().
ViewNode ==
    "v"

\* The nodes add() constructs for the objects that are no views, in the
\* order they are constructed.
GraphPool ==
    <<"n1", "n2", "n3">>

GraphNodes ==
    GraphRoots \cup {ViewNode} \cup {GraphPool[i] : i \in DOMAIN GraphPool}

\* The layout specs an object's layout stream emits.
Layouts ==
    {"p", "q"}

\* specs[id] of an id that is no key of specs.
Absent ==
    "absent"

\* _getRootNode of a tempRoot chain that never ends (RangeError).
Overflow ==
    "overflow"

\* The two roots and the view's node as `new SceneGraphNode()` leaves them
\* (root null, no tempRoot, no object), the registries of the roots empty.
\* made counts the nodes add() constructed, handlers holds the nodes whose
\* object has the five handlers of set(), the _id of the object of a node is
\* the name of the node; started holds the objects whose layout has started
\* and not ended, ops counts the operations, last is the last operation.
NoGraph ==
    [made |-> 0,
     root |-> [n \in GraphNodes |-> NULL],
     tempRoot |-> [n \in GraphNodes |-> NULL],
     handlers |-> {},
     objects |-> [r \in GraphRoots |-> {}],
     specs |-> [r \in GraphRoots |-> [id \in GraphNodes |-> Absent]],
     dirtyObjects |-> [r \in GraphRoots |-> <<>>],
     started |-> {},
     ops |-> 0,
     last |-> [op |-> "", node |-> NULL, result |-> ""]]

\* The nodes that exist.
GraphMade(g) ==
    GraphRoots \cup {ViewNode} \cup {GraphPool[i] : i \in 1..g.made}

\* function _getRootNode() with `this` = node; fuel is the number of nodes
\* the chain may still pass before it is known to run in a circle.
RECURSIVE getRootNodeFrom(_, _, _)
getRootNodeFrom(g, node, fuel) ==
    IF g.root[node] # NULL
    THEN g.root[node]
    ELSE IF g.tempRoot[node] # NULL
         THEN IF fuel = 0
              THEN Overflow
              ELSE getRootNodeFrom(g, g.tempRoot[node], fuel - 1)
         ELSE node

getRootNode(g, node) ==
    getRootNodeFrom(g, node, Cardinality(GraphNodes))

\* SceneGraphNode.prototype.set(object): an object with a commit method gets
\* the handlers for start, update, end, resize and dirty; for any other
\* object streams are lifted, which keep no state of the node.
SceneGraphNode_set(g, self, commit) ==
    IF commit
    THEN [g EXCEPT !.handlers = @ \cup {self}]
    ELSE g

\* function SceneGraphNode(object)
SceneGraphNode(g, self, commit) ==
    SceneGraphNode_set([g EXCEPT !.root[self] = NULL], self, commit)

\* SceneGraphNode.prototype.add(object): object is [isView, node, commit],
\* node being object._node of a view and the node constructed otherwise.
SceneGraphNode_add(g, self, object) ==
    IF object.isView
    THEN IF g.root[self] # NULL
         THEN [g EXCEPT !.root[object.node] = g.root[self]]
         ELSE IF g.tempRoot[self] # NULL
              THEN [g EXCEPT !.tempRoot[object.node] = g.tempRoot[self]]
              ELSE g
    ELSE LET c == SceneGraphNode(g, object.node, object.commit)
         IN  IF c.tempRoot[self] # NULL
             THEN [c EXCEPT !.tempRoot[object.node] = c.tempRoot[self]]
             ELSE [c EXCEPT !.root[object.node] = getRootNode(c, self)]

\* The node _getRootNode returns carries the registries.
HasRegistries(root) ==
    root \in GraphRoots

\* object.layout.on('start', ...): a root without registries makes the
\* handler throw a TypeError.
onStart(g, self, spec) ==
    LET root == getRootNode(g, self)
    IN  IF HasRegistries(root)
        THEN [g EXCEPT !.objects[root] = @ \cup {self},
                       !.specs[root][self] = spec,
                       !.last.result = "done"]
        ELSE [g EXCEPT !.last.result = "throw"]

\* object.layout.on('update', ...)
onUpdate(g, self, spec) ==
    LET root == getRootNode(g, self)
    IN  IF HasRegistries(root)
        THEN [g EXCEPT !.specs[root][self] = spec, !.last.result = "done"]
        ELSE [g EXCEPT !.last.result = "throw"]

\* object.layout.on('end', ...)
onEnd(g, self) ==
    LET root == getRootNode(g, self)
    IN  IF HasRegistries(root)
        THEN [g EXCEPT !.objects[root] = @ \ {self},
                       !.specs[root][self] = Absent,
                       !.last.result = "done"]
        ELSE [g EXCEPT !.last.result = "throw"]

\* object.size.on('resize', ...) and object.on('dirty', ...)
onDirty(g, self) ==
    LET root == getRootNode(g, self)
    IN  IF HasRegistries(root)
        THEN [g EXCEPT !.dirtyObjects[root] = Append(@, self),
                       !.last.result = "done"]
        ELSE [g EXCEPT !.last.result = "throw"]

\* No GL event is followed: none waits, none was delivered. While the
\* events are followed (on), queue holds the closures handed to defer() that
\* have not emitted yet, oldest first, each with the number of `await null`
\* it has ahead; heard is the GL event of every node delivered last; calls
\* counts the direct calls of _triggerLoadGL / _triggerUnloadGL.
NoDelivery ==
    [on |-> FALSE, queue |-> <<>>, heard |-> [n \in Nodes |-> ""], calls |-> 0]

\* defer(async () => { await null (awaits times); this.emit(name, this) })
post(st, self, name, awaits) ==
    IF st.delivery.on
    THEN [st EXCEPT !.delivery.queue =
             Append(@, [node |-> self, name |-> name, awaits |-> awaits])]
    ELSE st

\* The events of _triggerLoadGL: BEHAVIOR_GL_LOAD at once, GL_LOAD from the
\* closure handed to defer(), after two `await null`; of _triggerLoadCSS:
\* CSS_LOAD.
emitLoad(st, self, B) ==
    IF B = GL
    THEN post(emit(emit(st, self, "BEHAVIOR_GL_LOAD"), self, "GL_LOAD"),
              self, "GL_LOAD", 2)
    ELSE emit(st, self, "CSS_LOAD")

\* The events of _triggerUnloadGL: BEHAVIOR_GL_UNLOAD at once, GL_UNLOAD from
\* the closure handed to defer(); of _triggerUnloadCSS: CSS_UNLOAD.
emitUnload(st, self, B) ==
    IF B = GL
    THEN post(emit(emit(st, self, "BEHAVIOR_GL_UNLOAD"), self, "GL_UNLOAD"),
              self, "GL_UNLOAD", 0)
    ELSE emit(st, self, "CSS_UNLOAD")

\* The microtask at the head of the queue runs: a closure with an
\* `await null` ahead goes to the back of the queue, another one emits.
runMicrotask(st) ==
    LET e == Head(st.delivery.queue)
    IN  IF e.awaits > 0
        THEN [st EXCEPT !.delivery.queue =
                 Append(Tail(@), [e EXCEPT !.awaits = @ - 1])]
        ELSE [st EXCEPT !.delivery.queue = Tail(@),
                        !.delivery.heard[e.node] = e.name]

\* get three() / get threeCSS(): the object is made on first access.
getObject(st0, n, B) ==
    Then(st0, LAMBDA st :
    IF st[B.obj][n].made THEN st ELSE [st EXCEPT ![B.obj][n] = NewObject])

getThree(st, n) ==
    getObject(st, n, GL)

getThreeCSS(st, n) ==
    getObject(st, n, CSS)

\* Object3D.add(object): the object leaves the parent it has and becomes the
\* last child.
Object3D_add(st0, p, c, B) ==
    Then(st0, LAMBDA st :
    LET old == st[B.obj][c].parent
        objs == IF old \in Nodes
                THEN [st[B.obj] EXCEPT ![old].children = SelectSeq(@, LAMBDA x : x # c)]
                ELSE st[B.obj]
    IN  [st EXCEPT ![B.obj] = [objs EXCEPT ![c].parent = p,
                                           ![p].children = Append(@, c)]])

\* this.__three && disposeObject(this.__three); this.__three = undefined:
\* the object leaves its parent; the objects under it stay under it.
discardObject(st0, n, B) ==
    Then(st0, LAMBDA st :
    IF ~st[B.obj][n].made
    THEN st
    ELSE LET old == st[B.obj][n].parent
             objs == IF old \in Nodes
                     THEN [st[B.obj] EXCEPT ![old].children = SelectSeq(@, LAMBDA x : x # n)]
                     ELSE st[B.obj]
         IN  [st EXCEPT ![B.obj] =
                 [m \in Nodes |->
                     IF m = n THEN NoObject
                     ELSE IF objs[m].parent = n
                          THEN [objs[m] EXCEPT
                                   !.parent = DisposedOf(n),
                                   !.parentWorld = objs[n].matrixWorld]
                          ELSE objs[m]]])

\* get scene(): the Scene found up the parent chain is cached in _scene, on
\* every node the search passes.
RECURSIVE getScene(_, _, _)
getScene(st0, n, fuel) ==
    Then(st0, LAMBDA st :
    IF st.scene[n] # NULL \/ st.parent[n] = NULL
    THEN st
    ELSE LET p == st.parent[n]
         IN  IF ~IsImperativeBase(p) \/ fuel = 0
             THEN [st EXCEPT !.thrown = TRUE]
             ELSE IF st.scene[p] # NULL
                  THEN [st EXCEPT !.scene[n] = st.scene[p]]
                  ELSE IF isScene(p)
                       THEN [st EXCEPT !.scene[n] = p]
                       ELSE Then(getScene(st, p, fuel - 1), LAMBDA s1 :
                                [s1 EXCEPT !.scene[n] = s1.scene[p]]))

\* _connectThree() / _connectThreeCSS(), no shadow root involved:
\* this.parent && this.parent.three.add(this.three); this.needsUpdate()
connect(st0, self, B) ==
    Then(st0, LAMBDA st :
    IF st.parent[self] = NULL
    THEN needsUpdate(st, self)
    ELSE LET s1 == getObject(getObject(st, st.parent[self], B), self, B)
         IN  needsUpdate(Object3D_add(s1, st.parent[self], self, B), self))

connectThree(st, self) ==
    connect(st, self, GL)

connectThreeCSS(st, self) ==
    connect(st, self, CSS)

\* Variant: a node that is loaded is connected again all the same.
ImperativeBase_load_Reconnect(st0, self, B) ==
    Then(st0, LAMBDA st :
    Then(getScene(st, self, Cardinality(Nodes)), LAMBDA s1 :
        IF s1.thrown \/ ~(s1.scene[self] # NULL /\ s1[B.flag])
        THEN [s1 EXCEPT !.ok = FALSE]
        ELSE LET s2 == [s1 EXCEPT ![B.loaded][self] = TRUE]
             IN  [needsUpdate(connect(getObject(s2, self, B), self, B), self)
                     EXCEPT !.ok = TRUE]))

\* ImperativeBase._loadGL() / _loadCSS(): false unless the node is in a
\* Scene that enables the rendering and is not loaded yet.
ImperativeBase_load(st0, self, B) ==
    Then(st0, LAMBDA st :
    Then(getScene(st, self, Cardinality(Nodes)), LAMBDA s1 :
        IF s1.thrown \/ ~(s1.scene[self] # NULL /\ s1[B.flag])
        THEN [s1 EXCEPT !.ok = FALSE]
        ELSE IF s1[B.loaded][self]
             THEN [s1 EXCEPT !.ok = FALSE]
             ELSE LET s2 == setLoaded(s1, self, B, TRUE)
                  IN  [needsUpdate(connect(getObject(s2, self, B), self, B), self)
                          EXCEPT !.ok = TRUE]))

\* Variant: unloading keeps the object.
ImperativeBase_unload_Keep(st0, self, B) ==
    Then(st0, LAMBDA st :
    IF ~st[B.loaded][self]
    THEN [st EXCEPT !.ok = FALSE]
    ELSE [needsUpdate([st EXCEPT ![B.loaded][self] = FALSE], self) EXCEPT !.ok = TRUE])

\* Variant: unloading takes the node out of the tree as well.
ImperativeBase_unload_Detach(st0, self, B) ==
    Then(st0, LAMBDA st :
    IF ~st[B.loaded][self]
    THEN [st EXCEPT !.ok = FALSE]
    ELSE LET p == st.parent[self]
             s1 == [st EXCEPT ![B.loaded][self] = FALSE,
                              !.parent[self] = NULL,
                              !.isConnected[self] = FALSE,
                              !.children = [n \in Nodes |->
                                               IF n = p
                                               THEN SelectSeq(st.children[n],
                                                              LAMBDA c : c # self)
                                               ELSE st.children[n]]]
         IN  [needsUpdate(discardObject(s1, self, B), self) EXCEPT !.ok = TRUE])

\* ImperativeBase._unloadGL() / _unloadCSS(): false unless loaded; the
\* object is disposed and forgotten.
ImperativeBase_unload(st0, self, B) ==
    Then(st0, LAMBDA st :
    IF ~st[B.loaded][self]
    THEN [st EXCEPT !.ok = FALSE]
    ELSE LET s1 == setLoaded(st, self, B, FALSE)
         IN  [needsUpdate(discardObject(s1, self, B), self) EXCEPT !.ok = TRUE])

\* node._loadCSS() for every node of nodes, in order.
RECURSIVE loadAll(_, _, _)
loadAll(st0, nodes, B) ==
    Then(st0, LAMBDA st :
    IF nodes = <<>>
    THEN st
    ELSE loadAll(IF IsImperativeBase(Head(nodes))
                 THEN ImperativeBase_load(st, Head(nodes), B)
                 ELSE st,
                 Tail(nodes), B))

RECURSIVE triggerLoadAll(_, _, _, _)
RECURSIVE triggerLoad(_, _, _, _)
RECURSIVE Scene_load(_, _, _, _)
RECURSIVE load(_, _, _, _)

\* Dynamic dispatch of _loadGL / _loadCSS on the receiver's class.
load(st, self, B, fuel) ==
    IF isScene(self) THEN Scene_load(st, self, B, fuel) ELSE ImperativeBase_load(st, self, B)

\* Scene._loadGL() / _loadCSS(): after the Scene's own loading, traverse()
\* loads every other node of the subtree, parents first (_triggerLoadGL for
\* WebGL, _loadCSS for CSS).
Scene_load(st0, self, B, fuel) ==
    Then(st0, LAMBDA st :
    Then(ImperativeBase_load(st, self, B), LAMBDA s1 :
        IF ~s1.ok
        THEN s1
        ELSE [(IF B = GL
               THEN triggerLoadAll(s1, Tail(subtreeOf(s1, self, Cardinality(Nodes))),
                                   B, fuel)
               ELSE loadAll(s1, Tail(subtreeOf(s1, self, Cardinality(Nodes))), B))
                 EXCEPT !.ok = TRUE]))

\* _triggerLoadGL() / _triggerLoadCSS(): a node that got loaded has its
\* subnodes loaded, in order.
triggerLoad(st0, self, B, fuel) ==
    Then(st0, LAMBDA st :
    IF fuel = 0 \/ ~IsImperativeBase(self)
    THEN st
    ELSE Then(load(st, self, B, fuel - 1), LAMBDA s1 :
             IF ~s1.ok
             THEN s1
             ELSE triggerLoadAll(emitLoad(s1, self, B), s1.children[self], B, fuel - 1)))

\* node._triggerLoadGL() for every node of nodes, in order.
triggerLoadAll(st0, nodes, B, fuel) ==
    Then(st0, LAMBDA st :
    IF nodes = <<>>
    THEN st
    ELSE triggerLoadAll(triggerLoad(st, Head(nodes), B, fuel), Tail(nodes), B, fuel))

triggerLoadGL(st, self) ==
    triggerLoad(st, self, GL, Cardinality(Nodes) + 1)

triggerLoadCSS(st, self) ==
    triggerLoad(st, self, CSS, Cardinality(Nodes) + 1)

\* node._triggerUnloadGL() / node._unloadCSS() for every node of nodes, in
\* order: _triggerUnloadGL emits its events whatever _unloadGL() returned.
RECURSIVE unloadAll(_, _, _)
unloadAll(st0, nodes, B) ==
    Then(st0, LAMBDA st :
    IF nodes = <<>>
    THEN st
    ELSE unloadAll(IF IsImperativeBase(Head(nodes))
                   THEN IF B = GL
                        THEN emitUnload(ImperativeBase_unload(st, Head(nodes), B),
                                        Head(nodes), B)
                        ELSE ImperativeBase_unload(st, Head(nodes), B)
                   ELSE st,
                   Tail(nodes), B))

\* Scene._unloadGL() / _unloadCSS(): after the Scene's own unloading,
\* traverse() unloads every other node of the subtree; _unloadGL then reads
\* this.three.environment and this.three.background.
Scene_unload(st0, self, B) ==
    Then(st0, LAMBDA st :
    Then(ImperativeBase_unload(st, self, B), LAMBDA s1 :
        IF ~s1.ok
        THEN s1
        ELSE Then(unloadAll(s1, Tail(subtreeOf(s1, self, Cardinality(Nodes))), B),
                  LAMBDA s2 :
                  [(IF B = GL THEN getThree(s2, self) ELSE s2)
                      EXCEPT !.ok = TRUE, !.switchedOff = @ \cup {B.loaded}])))

\* _triggerUnloadGL() / _triggerUnloadCSS(): this._unloadGL(), whose result
\* is not looked at, then the events; no subnode is visited.
triggerUnload(st, self, B) ==
    emitUnload(IF isScene(self)
               THEN Scene_unload(st, self, B)
               ELSE ImperativeBase_unload(st, self, B),
               self, B)

triggerUnloadGL(st, self) ==
    triggerUnload(st, self, GL)

triggerUnloadCSS(st, self) ==
    triggerUnload(st, self, CSS)

\* __possiblyLoadThree(child)
possiblyLoadThree(st, child) ==
    IF isNode(child) THEN triggerLoadCSS(triggerLoadGL(st, child), child) ELSE st

\* Variant: the whole subtree of the child is unloaded.
possiblyUnloadThree_Subtree(st0, child) ==
    Then(st0, LAMBDA st :
    IF isNode(child)
    THEN unloadAll(unloadAll(st, subtreeOf(st, child, Cardinality(Nodes)), GL),
                   subtreeOf(st, child, Cardinality(Nodes)), CSS)
    ELSE st)

\* __possiblyUnloadThree(child)
possiblyUnloadThree(st, child) ==
    IF isNode(child) THEN triggerUnloadCSS(triggerUnloadGL(st, child), child) ELSE st

\* -------------------------------------------------------------- transform
\* The half of a number.
Half(a) ==
    Mul(a, OneHalf)

\* appliedPosition of _calculateMatrix(): position + parentSize * align
\* - size * mountPoint, per axis.
appliedPosition(st, n) ==
    [ax \in Axes |->
        getPosition(st, n)[ax]
            + Mul(getParentSize(st, n)[ax], getAlignPoint(st, n)[ax])
            - Mul(st.calculatedSize[n][ax], getMountPoint(st, n)[ax])]

\* threeJsPostAdjustment of _calculateMatrix(): size / 2 - parentSize / 2.
threeJsPostAdjustment(st, n) ==
    [ax \in Axes |-> Half(st.calculatedSize[n][ax]) - Half(getParentSize(st, n)[ax])]

\* this.threeCSS.parent && this.threeCSS.parent.type === 'Scene'
childOfScene(st, n) ==
    \/ st.threeCSS[n].parent \in Nodes /\ isScene(st.threeCSS[n].parent)
    \/ st.threeCSS[n].parent = "disposedScene"

\* Variant: Y is not negated for the WebGL object.
calculateMatrix_YUp(st0, n) ==
    Then(st0, LAMBDA st :
    LET ap == appliedPosition(st, n)
        adj == threeJsPostAdjustment(st, n)
        both == XYZ(ap.x + adj.x, ap.y + adj.y, ap.z + adj.z)
        css == XYZ(ap.x + adj.x, 0 - (ap.y + adj.y), ap.z + adj.z)
        zOnly == XYZ(ap.x, 0 - ap.y, ap.z + adj.z)
    IN  Then(getThreeCSS(getThree(st, n), n), LAMBDA s1 :
        [s1 EXCEPT !.three[n].position = both,
                   !.threeCSS[n].position = IF childOfScene(s1, n) THEN css ELSE zOnly]))

\* _calculateMatrix(): the position of both objects is set, Y negated; the
\* CSS object of a node that is not a child of the Scene's object gets the
\* adjustment on Z only. origin, rotation and scale keep their defaults.
calculateMatrix(st0, n) ==
    Then(st0, LAMBDA st :
    LET ap == appliedPosition(st, n)
        adj == threeJsPostAdjustment(st, n)
        both == XYZ(ap.x + adj.x, 0 - (ap.y + adj.y), ap.z + adj.z)
        zOnly == XYZ(ap.x, 0 - ap.y, ap.z + adj.z)
    IN  Then(getThreeCSS(getThree(st, n), n), LAMBDA s1 :
        [s1 EXCEPT !.three[n].position = both,
                   !.threeCSS[n].position = IF childOfScene(s1, n) THEN both ELSE zOnly]))

\* _render(): this._calculateMatrix(); the element operations write styles
\* only.
render(st, n) ==
    calculateMatrix(st, n)

\* Variant: the world matrix is the local matrix, whatever the parent.
updateMatrixWorld_Local(st0, n, B, fuel) ==
    Then(st0, LAMBDA st :
    IF ~st[B.obj][n].made
    THEN st
    ELSE [st EXCEPT ![B.obj][n].matrixWorld = st[B.obj][n].position])

\* Object3D.updateMatrixWorld(): the world matrix of the object is its
\* parent's world matrix times its matrix, or its matrix when it has no
\* parent; then the same for the objects under it.
RECURSIVE updateMatrixWorld(_, _, _, _)
RECURSIVE updateMatrixWorldAll(_, _, _, _)
updateMatrixWorld(st0, n, B, fuel) ==
    Then(st0, LAMBDA st :
    IF ~st[B.obj][n].made \/ fuel = 0
    THEN st
    ELSE LET o == st[B.obj][n]
             base == IF o.parent \in Nodes
                     THEN st[B.obj][o.parent].matrixWorld
                     ELSE IF o.parent = NULL THEN XYZ(0, 0, 0) ELSE o.parentWorld
             world == [ax \in Axes |-> base[ax] + o.position[ax]]
         IN  updateMatrixWorldAll([st EXCEPT ![B.obj][n].matrixWorld = world],
                                  o.children, B, fuel - 1))

updateMatrixWorldAll(st0, nodes, B, fuel) ==
    Then(st0, LAMBDA st :
    IF nodes = <<>>
    THEN st
    ELSE updateMatrixWorldAll(updateMatrixWorld(st, Head(nodes), B, fuel),
                              Tail(nodes), B, fuel))

\* _calculateWorldMatricesInSubtree(): this.three.updateMatrixWorld();
\* this.threeCSS.updateMatrixWorld()
calculateWorldMatricesInSubtree(st, n) ==
    LET s1 == getThree(st, n)
        s2 == updateMatrixWorld(s1, n, GL, Cardinality(Nodes))
        s3 == getThreeCSS(s2, n)
    IN  updateMatrixWorld(s3, n, CSS, Cardinality(Nodes))

\* _updateRotation(): three.rotation is (-x, y, -z); threeCSS.rotation has X
\* and Z negated when this.parent?.isScene. _updateScale(): the scale of both
\* objects keeps its default.
updateRotation(st, n) ==
    LET r == st.rotation[n]
        sign == IF st.parent[n] # NULL /\ isScene(st.parent[n]) THEN -1 ELSE 1
    IN  Then(getThreeCSS(getThree(st, n), n), LAMBDA s1 :
        [s1 EXCEPT !.three[n].rotation = XYZ(0 - r.x, r.y, 0 - r.z),
                   !.threeCSS[n].rotation = XYZ(sign * r.x, r.y, sign * r.z)])

\* Variant: the size autorun tracks sizeMode and size and computes nothing.
sizeAutorun_NoCalc(st, n) ==
    st

\* autorun: this.sizeMode; this.size; untrack(() => this._calcSize())
sizeAutorun(st, n) ==
    calcSize(st, n)

\* Variant: the parent-size autorun does not track the parent's
\* calculatedSize.
parentSizeAutorun_Untracked(st0, n) ==
    Then(st0, LAMBDA st :
    IF st.parent[n] = NULL
    THEN [st EXCEPT !.deps[n] = {<<"parent", n>>}]
    ELSE LET s1 == [st EXCEPT !.deps[n] = {<<"parent", n>>}]
         IN  IF \/ s1.sizeMode[n].x = "proportional"
                \/ s1.sizeMode[n].y = "proportional"
                \/ s1.sizeMode[n].z = "proportional"
                \/ getAlignPoint(s1, n).x # 0
                \/ getAlignPoint(s1, n).y # 0
                \/ getAlignPoint(s1, n).z # 0
             THEN needsUpdate(calcSize(s1, n), n)
             ELSE s1)

\* Variant: the parent-size autorun asks for an update but does not
\* re-resolve the node's size.
parentSizeAutorun_NoCalc(st0, n) ==
    Then(st0, LAMBDA st :
    IF st.parent[n] = NULL
    THEN [st EXCEPT !.deps[n] = {<<"parent", n>>}]
    ELSE LET s1 == [st EXCEPT !.deps[n] = {<<"parent", n>>,
                                           <<"calculatedSize", st.parent[n]>>}]
         IN  IF \/ s1.sizeMode[n].x = "proportional"
                \/ s1.sizeMode[n].y = "proportional"
                \/ s1.sizeMode[n].z = "proportional"
                \/ getAlignPoint(s1, n).x # 0
                \/ getAlignPoint(s1, n).y # 0
                \/ getAlignPoint(s1, n).z # 0
             THEN needsUpdate(s1, n)
             ELSE s1)

\* autorun: if (!this.parent) return; this.parent.calculatedSize;
\* untrack(() => { if (a proportional axis or a non-zero alignPoint)
\* { this._calcSize(); this.needsUpdate() } })
parentSizeAutorun(st0, n) ==
    Then(st0, LAMBDA st :
    IF st.parent[n] = NULL
    THEN [st EXCEPT !.deps[n] = {<<"parent", n>>}]
    ELSE LET s1 == [st EXCEPT !.deps[n] = {<<"parent", n>>,
                                           <<"calculatedSize", st.parent[n]>>}]
         IN  IF \/ s1.sizeMode[n].x = "proportional"
                \/ s1.sizeMode[n].y = "proportional"
                \/ s1.sizeMode[n].z = "proportional"
                \/ getAlignPoint(s1, n).x # 0
                \/ getAlignPoint(s1, n).y # 0
                \/ getAlignPoint(s1, n).z # 0
             THEN needsUpdate(calcSize(s1, n), n)
             ELSE s1)

\* autorun: this.sizeMode; this.size; ...; this.needsUpdate()
updateAutorun(st, n) ==
    needsUpdate(st, n)

\* #startParentSizeObservation(): a new ResizeObserver replaces the current
\* one, which is not disconnected; observe() reports the element's size.
startParentSizeObservation(st0) ==
    Then(st0, LAMBDA st :
    [st EXCEPT !.staleObserver = @ \/ st.observing,
               !.observing = TRUE,
               !.observePending = TRUE])

\* #stopParentSizeObservation(): the current observer is disconnected.
stopParentSizeObservation(st0) ==
    Then(st0, LAMBDA st :
    [st EXCEPT !.observing = FALSE,
               !.observePending = @ /\ st.staleObserver])

\* #startOrStopParentSizeObservation()
startOrStopParentSizeObservation(st0, n) ==
    Then(st0, LAMBDA st :
    IF /\ st.enableCss \/ st.webgl
       /\ st.sizeMode[n].x = "proportional" \/ st.sizeMode[n].y = "proportional"
    THEN startParentSizeObservation(st)
    ELSE stopParentSizeObservation(st))

\* #onElementParentSizeChange(newSize)
onElementParentSizeChange(st, n, newSize) ==
    needsUpdate(calcSize([st EXCEPT !.elementParentSize = newSize], n), n)

\* #checkSize(x, y) passing every observation on.
checkSize_Always(st0, n, x, y) ==
    Then(st0, LAMBDA st :
    onElementParentSizeChange(st, n, [st.elementParentSize EXCEPT !.x = x, !.y = y]))

\* #checkSize(x, y): only a change of x or y is passed on.
checkSize(st0, n, x, y) ==
    Then(st0, LAMBDA st :
    IF st.elementParentSize.x # x \/ st.elementParentSize.y # y
    THEN onElementParentSizeChange(st, n, [st.elementParentSize EXCEPT !.x = x, !.y = y])
    ELSE st)

\* autorun: if (this.webgl) this._triggerLoadGL(); else
\* this._triggerUnloadGL(); this.needsUpdate()
webglAutorun(st0, n) ==
    Then(st0, LAMBDA st :
    needsUpdate(IF st.webgl THEN triggerLoadGL(st, n) ELSE triggerUnloadGL(st, n), n))

\* autorun: background is '', so this.three.background is read and the
\* renderer, if any, is told to drop the background.
backgroundAutorun(st, n) ==
    getThree(st, n)

\* autorun: if (this.enableCss) this._triggerLoadCSS(); else
\* this._triggerUnloadCSS(); this.needsUpdate()
enableCssAutorun(st0, n) ==
    Then(st0, LAMBDA st :
    needsUpdate(IF st.enableCss THEN triggerLoadCSS(st, n) ELSE triggerUnloadCSS(st, n), n))

\* ---------------------------------------------------------- Scene cameras
\* The camera _createDefaultCamera() makes for a Scene.
DefaultCamera ==
    "default"

\* _createDefaultCamera(): this.#threeCamera = new ThreePerspectiveCamera(...)
createDefaultCamera(st) ==
    [st EXCEPT !.cameras.threeCamera = DefaultCamera]

\* #setCamera(camera?): without a camera the default camera is created anew;
\* with one, this.#threeCamera = camera.three and this.needsUpdate().
setCamera(st, self, camera) ==
    IF camera = NULL
    THEN createDefaultCamera(st)
    ELSE needsUpdate([st EXCEPT !.cameras.threeCamera = camera], self)

\* Set.prototype.add: a value already in the Set keeps its place.
SetAdd(seq, x) ==
    IF Has(seq, x) THEN seq ELSE Append(seq, x)

\* Set.prototype.delete
SetDelete(seq, x) ==
    SelectSeq(seq, LAMBDA y : y # x)

\* _addCamera(camera): this.#activeCameras.add(camera); this.#setCamera(camera)
Scene_addCamera(st, self, camera) ==
    setCamera([st EXCEPT !.cameras.active = SetAdd(@, camera)], self, camera)

\* _removeCamera(camera): this.#activeCameras.delete(camera); the camera the
\* Set iterates last is set, the default camera when the Set is empty.
Scene_removeCamera(st, self, camera) ==
    LET active == SetDelete(st.cameras.active, camera)
        s1 == [st EXCEPT !.cameras.active = active]
    IN  IF Len(active) > 0
        THEN setCamera(s1, self, active[Len(active)])
        ELSE setCamera(s1, self, NULL)

\* ------------------------------------------------------ GltfModelBehavior
\* model = null; a model is told by the #version of the load that brought it.
NoModel ==
    0

\* The element of the behavior.
Element ==
    "b"

\* #cleanupModel(): the model, if any, is disposed and forgotten.
cleanupModel(st) ==
    [st EXCEPT !.gltf.model = NoModel,
               !.gltf.undisposed = @ \ {st.gltf.model},
               !.gltf.history = IF st.gltf.model # NoModel
                                THEN @ \cup {"disposed"}
                                ELSE @]

\* #loadObj(): with a src, gltfLoader.load(src, ...) is called; its callbacks
\* keep the #version of the call.
loadObj(st) ==
    IF st.gltf.src = ""
    THEN st
    ELSE [st EXCEPT !.gltf.loads = @ \cup {st.gltf.version}]

\* autorun: the decoder path is handed to the DRACOLoader.
dracoAutorun(st) ==
    st

\* Variant: the model autorun starts the next load without #cleanupModel().
modelAutorun_NoCleanup(st) ==
    loadObj([st EXCEPT !.gltf.version = @ + 1])

\* autorun: this.src; this.dracoDecoder; this.centerGeometry;
\* this.#cleanupModel(); this.#version++; this.#loadObj()
modelAutorun(st) ==
    loadObj([cleanupModel(st) EXCEPT !.gltf.version = @ + 1])

\* Variant: unloadGL() that leaves the autoruns running.
GltfModelBehavior_unloadGL_NoStop(st0) ==
    Then(st0, LAMBDA st :
    IF ~st.gltf.isLoadedGL
    THEN [st EXCEPT !.ok = FALSE]
    ELSE [cleanupModel([st EXCEPT !.gltf.isLoadedGL = FALSE])
             EXCEPT !.gltf.version = @ + 1, !.ok = TRUE])

\* loadGL(): false when super.loadGL() is (GL is loaded already); the two
\* autoruns are created, run, and their stop functions kept.
GltfModelBehavior_loadGL(st0) ==
    Then(st0, LAMBDA st :
    IF st.gltf.isLoadedGL
    THEN [st EXCEPT !.ok = FALSE]
    ELSE [modelAutorun(dracoAutorun([st EXCEPT !.gltf.isLoadedGL = TRUE]))
             EXCEPT !.gltf.stopFns = @ \o BehaviorComputations, !.ok = TRUE])

\* stop() of every function of #stopFns, then #stopFns.length = 0: a stopped
\* autorun does not run again, scheduled or not.
stopAll(st) ==
    [st EXCEPT !.gltf.history =
                   IF \E i \in 1..Len(st.pending) : Has(st.gltf.stopFns, st.pending[i])
                   THEN @ \cup {"stoppedScheduled"}
                   ELSE @,
               !.pending = SelectSeq(@, LAMBDA c : ~Has(st.gltf.stopFns, c)),
               !.gltf.stopFns = <<>>]

\* unloadGL(): false when super.unloadGL() is (GL is not loaded); the
\* autoruns are stopped, the model is cleaned up, #version is incremented.
GltfModelBehavior_unloadGL(st0) ==
    Then(st0, LAMBDA st :
    IF ~st.gltf.isLoadedGL
    THEN [st EXCEPT !.ok = FALSE]
    ELSE [cleanupModel(stopAll([st EXCEPT !.gltf.isLoadedGL = FALSE]))
             EXCEPT !.gltf.version = @ + 1, !.ok = TRUE])

\* #setModel(model): this.model = model; this.element.three.add(model.scene);
\* MODEL_LOAD is emitted; this.element.needsUpdate()
setModel(st, version) ==
    needsUpdate(
        emit(note(getThree([st EXCEPT !.gltf.model = version,
                                      !.gltf.undisposed = @ \cup {version}],
                           Element),
                  [node |-> Element, type |-> "add", name |-> "model.scene",
                   value |-> TRUE]),
             Element, "MODEL_LOAD"),
        Element)

\* #onError(error): MODEL_ERROR is emitted.
onError(st) ==
    emit(st, Element, "MODEL_ERROR")

\* version == this.#version is false: the callback does nothing, which is
\* remembered.
discarded(st) ==
    [st EXCEPT !.gltf.history = @ \cup {"discarded"}]

\* Variant: the model of a finished load is taken whatever its version.
onLoad_AnyVersion(st, version) ==
    setModel([st EXCEPT !.gltf.loads = @ \ {version}], version)

\* model => version == this.#version && this.#setModel(model)
onLoad(st, version) ==
    IF version = st.gltf.version
    THEN setModel([st EXCEPT !.gltf.loads = @ \ {version}], version)
    ELSE discarded([st EXCEPT !.gltf.loads = @ \ {version}])

\* progress => version == this.#version && this.element.emit(PROGRESS, ...)
onProgress(st, version) ==
    IF version = st.gltf.version
    THEN emit(st, Element, "PROGRESS")
    ELSE discarded(st)

\* error => version == this.#version && this.#onError(error)
onLoadError(st, version) ==
    IF version = st.gltf.version
    THEN onError([st EXCEPT !.gltf.loads = @ \ {version}])
    ELSE discarded([st EXCEPT !.gltf.loads = @ \ {version}])

\* One scheduled autorun runs again.
runAutorun(st, c) ==
    CASE c.fn = "size" -> sizeAutorun(st, c.node)
      [] c.fn = "parentSize" -> parentSizeAutorun(st, c.node)
      [] c.fn = "update" -> updateAutorun(st, c.node)
      [] c.fn = "webgl" -> webglAutorun(st, c.node)
      [] c.fn = "background" -> backgroundAutorun(st, c.node)
      [] c.fn = "enableCss" -> enableCssAutorun(st, c.node)
      [] c.fn = "draco" -> dracoAutorun(st)
      [] c.fn = "model" -> modelAutorun(st)
      [] c.fn = "observe" -> startOrStopParentSizeObservation(st, c.node)

\* ImperativeBase.connectedCallback(): each autorun runs once as it is
\* created, the rotation and the scale autorun first.
ImperativeBase_connectedCallback(st, n) ==
    LET s0 == updateRotation([st EXCEPT !.live[n] = TRUE], n)
        s1 == sizeAutorun(s0, n)
        s2 == parentSizeAutorun(s1, n)
    IN  updateAutorun(s2, n)

\* Scene.connectedCallback(): the webgl, the background and the enableCss
\* autorun run, the last autorun starts or stops the observation.
Scene_connectedCallback(st, n) ==
    LET s1 == ImperativeBase_connectedCallback(st, n)
        s2 == webglAutorun(s1, n)
        s3 == backgroundAutorun(s2, n)
        s4 == enableCssAutorun(s3, n)
    IN  startOrStopParentSizeObservation(s4, n)

connectedCallback(st, n) ==
    IF isScene(n)
    THEN Scene_connectedCallback(st, n)
    ELSE IF isNode(n) THEN ImperativeBase_connectedCallback(st, n)
    ELSE st

\* disconnectedCallback(): the node's autoruns are stopped.
disconnectedCallback(st, n) ==
    [st EXCEPT !.live[n] = FALSE,
               !.deps[n] = {},
               !.pending = SelectSeq(@, LAMBDA c : c.node # n)]

\* The element of every node of nodes enters the document: its
\* connectedCallback runs and its parent is told of a composed child.
RECURSIVE connectAll(_, _)
connectAll(st0, nodes) ==
    Then(st0, LAMBDA st :
    IF nodes = <<>>
    THEN st
    ELSE LET n == Head(nodes)
             s1 == IF st.live[n] THEN st ELSE connectedCallback(st, n)
             s2 == IF st.parent[n] = NULL \/ st.live[n]
                   THEN s1
                   ELSE [s1 EXCEPT !.composed =
                            Append(@, [self |-> st.parent[n], child |-> n])]
         IN  connectAll([s2 EXCEPT !.uncomposed = SelectSeq(@, LAMBDA e : e.child # n)],
                        Tail(nodes)))

\* The element of every node of nodes leaves the document.
RECURSIVE disconnectAll(_, _)
disconnectAll(st0, nodes) ==
    Then(st0, LAMBDA st :
    IF nodes = <<>>
    THEN st
    ELSE LET n == Head(nodes)
             s1 == IF st.live[n] THEN disconnectedCallback(st, n) ELSE st
         IN  disconnectAll([s1 EXCEPT !.composed = SelectSeq(@, LAMBDA e : e.child # n)],
                           Tail(nodes)))

\* _elementOperations.connectChildElement(child): the child's element is
\* appended to this node's element; it enters the document when this node is
\* in it.
connectChildElement(st0, self, childNode) ==
    Then(st0, LAMBDA st :
    IF st.live[self] /\ ~st.live[childNode]
    THEN connectAll(st, subtreeOf(st, childNode, Cardinality(Nodes)))
    ELSE st)

\* _elementOperations.disconnectChildElement(child): the child's element is
\* removed from this node's element; this node is told of an uncomposed child.
disconnectChildElement(st0, self, childNode) ==
    Then(st0, LAMBDA st :
    IF st.live[childNode]
    THEN [disconnectAll(st, subtreeOf(st, childNode, Cardinality(Nodes)))
             EXCEPT !.uncomposed = Append(@, [self |-> self, child |-> childNode])]
    ELSE st)

\* ------------------------------------------------------------- removeNode
\* Variant: removeNode leaves __isConnected of the removed child set.
TreeNode_removeNode_KeepFlag(st, self, childNode) ==
    IF st.parent[childNode] # self
    THEN [st EXCEPT !.thrown = TRUE, !.result = "throw"]
    ELSE LET s1 == [setParent(st, childNode, NULL) EXCEPT
                        !.children[self] = Splice1(@, IndexOf(@, childNode)),
                        !.result = "removed"]
         IN  defer(s1, "disconnected", self, childNode)

\* Variant: the detached child's callbacks are never handed to defer().
TreeNode_removeNode_NoDefer(st, self, childNode) ==
    IF st.parent[childNode] # self
    THEN [st EXCEPT !.thrown = TRUE, !.result = "throw"]
    ELSE [setParent(st, childNode, NULL) EXCEPT
                    !.children[self] = Splice1(@, IndexOf(@, childNode)),
                    !.isConnected[childNode] = FALSE,
                    !.result = "removed"]

TreeNode_removeNode(st, self, childNode) ==
    IF st.parent[childNode] # self
    THEN [st EXCEPT !.thrown = TRUE, !.result = "throw"]
    ELSE LET s1 == [setParent(st, childNode, NULL) EXCEPT
                              !.children[self] = Splice1(@, IndexOf(@, childNode))]
             s2 == [s1 EXCEPT !.isConnected[childNode] = FALSE]
         IN  [defer(s2, "disconnected", self, childNode) EXCEPT !.result = "removed"]

ImperativeBase_removeNode(st0, self, childNode, updateDOMConnection) ==
    Then(st0, LAMBDA st :
    IF ~isNode(childNode)
    THEN [st EXCEPT !.result = "ignored"]
    ELSE LET s1 == TreeNode_removeNode(st, self, childNode)
         IN  IF s1.thrown \/ ~updateDOMConnection
             THEN s1
             ELSE disconnectChildElement(s1, self, childNode))

\* Dynamic dispatch of removeNode on the receiver's class.
removeNode(st, self, childNode) ==
    IF IsImperativeBase(self)
    THEN ImperativeBase_removeNode(st, self, childNode, TRUE)
    ELSE TreeNode_removeNode(st, self, childNode)

\* -------------------------------------------------------------------- add
\* Variant: the child is not detached from its previous parent.
TreeNode_add_NoDetach(st, self, childNode) ==
    IF st.parent[childNode] = self
    THEN [st EXCEPT !.result = "noop"]
    ELSE LET s2 == [setParent(st, childNode, self) EXCEPT
                              !.children[self] = Append(@, childNode),
                              !.isConnected[childNode] = TRUE]
         IN  [defer(s2, "connected", self, childNode) EXCEPT !.result = "added"]

\* Variant: the child is put in front of its new siblings (unshift for push).
TreeNode_add_Unshift(st, self, childNode) ==
    IF st.parent[childNode] = self
    THEN [st EXCEPT !.result = "noop"]
    ELSE LET s1 == IF st.parent[childNode] # NULL
                   THEN removeNode(st, st.parent[childNode], childNode)
                   ELSE st
         IN  IF s1.thrown
             THEN s1
             ELSE LET s2 == [setParent(s1, childNode, self) EXCEPT
                                       !.children[self] = <<childNode>> \o @,
                                       !.isConnected[childNode] = TRUE]
                  IN  [defer(s2, "connected", self, childNode) EXCEPT !.result = "added"]

\* Variant: connected / childConnected are called inside add, not deferred.
TreeNode_add_SyncCallbacks(st, self, childNode) ==
    IF st.parent[childNode] = self
    THEN [st EXCEPT !.result = "noop"]
    ELSE LET s1 == IF st.parent[childNode] # NULL
                   THEN removeNode(st, st.parent[childNode], childNode)
                   ELSE st
         IN  IF s1.thrown
             THEN s1
             ELSE [setParent(s1, childNode, self) EXCEPT
                             !.children[self] = Append(@, childNode),
                             !.isConnected[childNode] = TRUE,
                             !.invoked = @ \o Callbacks([type |-> "connected",
                                                         child |-> childNode,
                                                         parent |-> self, id |-> 0]),
                             !.result = "added"]

TreeNode_add(st, self, childNode) ==
    IF st.parent[childNode] = self
    THEN [st EXCEPT !.result = "noop"]
    ELSE LET s1 == IF st.parent[childNode] # NULL
                   THEN removeNode(st, st.parent[childNode], childNode)
                   ELSE st
         IN  IF s1.thrown
             THEN s1
             ELSE LET s2 == [setParent(s1, childNode, self) EXCEPT
                                       !.children[self] = Append(@, childNode),
                                       !.isConnected[childNode] = TRUE]
                  IN  [defer(s2, "connected", self, childNode) EXCEPT !.result = "added"]

ImperativeBase_add(st0, self, childNode, updateDOMConnection) ==
    Then(st0, LAMBDA st :
    IF ~IsImperativeBase(childNode)
    THEN [st EXCEPT !.result = "ignored"]
    ELSE IF isScene(childNode)
         THEN [st EXCEPT !.result = "ignored"]
         ELSE LET s1 == TreeNode_add(st, self, childNode)
              IN  IF s1.thrown \/ ~updateDOMConnection
                  THEN s1
                  ELSE connectChildElement(s1, self, childNode))

\* Dynamic dispatch of add on the receiver's class.
add(st, self, childNode) ==
    IF IsImperativeBase(self)
    THEN ImperativeBase_add(st, self, childNode, TRUE)
    ELSE TreeNode_add(st, self, childNode)

\* ------------------------------------------------------------- microtasks
\* childComposedCallback(child, 'actual')
childComposedCallback(st0, self, child) ==
    Then(st0, LAMBDA st :
    IF ~IsImperativeBase(child)
    THEN st
    ELSE LET s1 == IF st.parent[child] = NULL
                   THEN ImperativeBase_add(st, self, child, TRUE)
                   ELSE st
         IN  possiblyLoadThree(needsUpdate(calcSize(s1, child), child), child))

\* childUncomposedCallback(child, 'actual'): an exception of removeNode ends
\* the callback.
childUncomposedCallback(st0, self, child) ==
    Then(st0, LAMBDA st :
    IF ~IsImperativeBase(child)
    THEN st
    ELSE Then(IF st.parent[child] # NULL
              THEN ImperativeBase_removeNode(st, self, child, TRUE)
              ELSE st,
              LAMBDA s1 : IF s1.thrown THEN s1 ELSE possiblyUnloadThree(s1, child)))

\* Every deferred closure runs, oldest first.
RECURSIVE runDeferred(_)
runDeferred(st0) ==
    Then(st0, LAMBDA st :
    IF st.deferred = <<>>
    THEN st
    ELSE runDeferred([st EXCEPT !.invoked = @ \o Callbacks(Head(st.deferred)),
                                !.deferred = Tail(@)]))

\* The host reports every uncomposed child, oldest first; an exception ends
\* the one callback it is thrown in.
RECURSIVE runUncomposed(_)
runUncomposed(st0) ==
    Then(st0, LAMBDA st :
    IF st.uncomposed = <<>>
    THEN st
    ELSE LET e == Head(st.uncomposed)
             s1 == childUncomposedCallback([st EXCEPT !.uncomposed = Tail(@)],
                                           e.self, e.child)
         IN  runUncomposed([s1 EXCEPT !.thrown = FALSE]))

\* The host reports every composed child, oldest first.
RECURSIVE runComposed(_)
runComposed(st0) ==
    Then(st0, LAMBDA st :
    IF st.composed = <<>>
    THEN st
    ELSE LET e == Head(st.composed)
         IN  runComposed(childComposedCallback([st EXCEPT !.composed = Tail(@)],
                                               e.self, e.child)))

\* Scheduled autoruns re-run, oldest first, until none is scheduled.
RECURSIVE runPending(_)
runPending(st0) ==
    Then(st0, LAMBDA st :
    IF st.pending = <<>>
    THEN st
    ELSE runPending(runAutorun([st EXCEPT !.pending = Tail(@)], Head(st.pending))))

\* nodes.forEach(node => this.add(node)); an exception ends the loop.
RECURSIVE addChildren(_, _, _)
addChildren(st, self, nodes) ==
    IF nodes = <<>> \/ st.thrown
    THEN st
    ELSE addChildren(add(st, self, Head(nodes)), self, Tail(nodes))

\* for (i = nodes.length - 1; i >= 0; i -= 1) this.removeNode(nodes[i])
RECURSIVE removeChildren(_, _, _)
removeChildren(st, self, nodes) ==
    IF nodes = <<>> \/ st.thrown
    THEN st
    ELSE removeChildren(removeNode(st, self, nodes[Len(nodes)]), self,
                        SubSeq(nodes, 1, Len(nodes) - 1))

\* removeChildren(this.__children): the loop walks the live array downwards
\* from its initial last index while removeNode splices it.
RECURSIVE removeLive(_, _, _)
removeLive(st, self, i) ==
    IF i < 0 \/ st.thrown
    THEN st
    ELSE IF i + 1 > Len(st.children[self])
         THEN [st EXCEPT !.thrown = TRUE, !.result = "throw"]
         ELSE removeLive(removeNode(st, self, st.children[self][i + 1]), self, i - 1)

\* Variant: the loop of removeChildren walks the live array upwards.
RECURSIVE removeLive_Upwards(_, _, _, _)
removeLive_Upwards(st, self, i, n) ==
    IF i >= n \/ st.thrown
    THEN st
    ELSE IF i + 1 > Len(st.children[self])
         THEN [st EXCEPT !.thrown = TRUE, !.result = "throw"]
         ELSE removeLive_Upwards(removeNode(st, self, st.children[self][i + 1]),
                                 self, i + 1, n)

removeAllChildren_Upwards(st, self) ==
    IF Len(st.children[self]) = 0
    THEN [st EXCEPT !.thrown = TRUE, !.result = "throw"]
    ELSE removeLive_Upwards(st, self, 0, Len(st.children[self]))

\* if (!this.__children.length) throw new ReferenceError(...);
\* this.removeChildren(this.__children)
removeAllChildren(st, self) ==
    IF Len(st.children[self]) = 0
    THEN [st EXCEPT !.thrown = TRUE, !.result = "throw"]
    ELSE removeLive(st, self, Len(st.children[self]) - 1)

\* ---------------------------------------------------------- read accessors
\* Variant: the getter hands out the node's own array.
subnodes_Aliased(n) ==
    [owner |-> n, alias |-> TRUE, mutated |-> FALSE, val |-> children[n]]

\* get subnodes(): [...this.__children]; alias tells whether the returned
\* array is the node's own array, mutated whether the caller has changed it.
subnodes(n) ==
    [owner |-> n, alias |-> FALSE, mutated |-> FALSE, val |-> children[n]]

childCount(n) ==
    Len(children[n])

\* traverse(fn): the visited nodes in call order; overflow when the recursion
\* runs out of stack.
RECURSIVE traverse(_, _)
RECURSIVE traverseChildren(_, _, _)
traverse(n, depth) ==
    IF depth > MaxStack
    THEN [visited |-> <<>>, overflow |-> TRUE]
    ELSE LET rest == traverseChildren(children[n], 1, depth + 1)
         IN  [visited |-> <<n>> \o rest.visited, overflow |-> rest.overflow]

traverseChildren(kids, i, depth) ==
    IF i > Len(kids)
    THEN [visited |-> <<>>, overflow |-> FALSE]
    ELSE LET first == traverse(kids[i], depth)
         IN  IF first.overflow
             THEN first
             ELSE LET rest == traverseChildren(kids, i + 1, depth)
                  IN  [visited |-> first.visited \o rest.visited,
                       overflow |-> rest.overflow]

\* ------------------------------------------------------------------- Init
NoCall ==
    [op |-> "none", self |-> NULL, child |-> NULL, result |-> "none",
     oldParent |-> NULL, visited |-> <<>>]

NoRet ==
    [owner |-> NULL, alias |-> FALSE, mutated |-> FALSE, val |-> <<>>]

\* Sizeable defaults: every axis literal, size 0.
DefaultSizeMode ==
    XYZ("literal", "literal", "literal")

DefaultSize ==
    XYZ(0, 0, 0)

\* Scene constructor: sizeMode.set('proportional', 'proportional', 'literal')
SceneSizeMode ==
    XYZ("proportional", "proportional", "literal")

\* Scene constructor: size.set(1, 1, 0)
SceneSize ==
    XYZ(Num(1), Num(1), 0)

\* Content-box sizes of the element the Scene is mounted in (z is always 0).
HostSizes ==
    {XYZ(Num(2), Num(3), 0), XYZ(Num(3), Num(2), 0)}

InitialHostSize ==
    XYZ(Num(2), Num(3), 0)

\* The Scene constructor's needsUpdate(): the Scene is flagged and Motor has
\* requested an animation frame for it.
Scheduled ==
    /\ willBeRendered = [n \in Nodes |-> isScene(n)]
    /\ ticks = 1

\* A GltfModelBehavior as constructed: src and dracoDecoder '', centerGeometry
\* false, model null, #version 0, #stopFns empty, GL not loaded, no load
\* under way; no call made yet, nothing to remember (history tells whether a
\* scheduled re-run was ever stopped, whether an attribute was ever written
\* after an unloadGL, whether a loader callback was ever discarded and
\* whether a model was ever disposed; undisposed holds the models #setModel
\* took that disposeObjectTree has not been called for).
NoBehavior ==
    [src |-> "", dracoDecoder |-> "", centerGeometry |-> FALSE, model |-> NoModel,
     version |-> 0, stopFns |-> <<>>, isLoadedGL |-> FALSE, loads |-> {},
     undisposed |-> {}, ops |-> 0, history |-> {}]

\* The camera state of a Scene as constructed: #activeCameras is empty and
\* #threeCamera is the default camera the constructor created. The history
\* field activated lists the active camera elements, the one activated last
\* at the end; ops counts the calls made.
NoCameras ==
    [active |-> <<>>, threeCamera |-> DefaultCamera, activated |-> <<>>, ops |-> 0]

\* Scene defaults: enableCss = true, webgl = false, _scene = this; no node
\* is loaded or has a Three.js object; position, alignPoint and mountPoint
\* are 0.
Defaults ==
    /\ webgl = FALSE
    /\ enableCss = TRUE
    /\ glLoaded = [n \in Nodes |-> FALSE]
    /\ cssLoaded = [n \in Nodes |-> FALSE]
    /\ three = [n \in Nodes |-> NoObject]
    /\ threeCSS = [n \in Nodes |-> NoObject]
    /\ scene = [n \in Nodes |-> IF isScene(n) THEN n ELSE NULL]
    /\ position = [n \in Nodes |-> XYZ(0, 0, 0)]
    /\ alignPoint = [n \in Nodes |-> XYZ(0, 0, 0)]
    /\ mountPoint = [n \in Nodes |-> XYZ(0, 0, 0)]
    /\ uncomposed = <<>>
    /\ toggles = 0
    /\ switchedOff = {}
    /\ Scheduled
    /\ emitted = <<>>
    /\ gltf = NoBehavior
    /\ cameras = NoCameras

\* The objects as constructed, their events without a listener.
Constructed ==
    /\ Defaults
    /\ listening = FALSE
    /\ rotation = [n \in Nodes |-> XYZ(0, 0, 0)]
    /\ delivery = NoDelivery
    /\ sceneGraph = NoGraph

\* The state after construction of the four objects; the Scene constructor
\* ends with _calcSize() (its element parent size is 0) and needsUpdate().
Init ==
    /\ parent = [n \in Nodes |-> NULL]
    /\ children = [n \in Nodes |-> <<>>]
    /\ isConnected = [n \in Nodes |-> FALSE]
    /\ deferred = <<>>
    /\ invoked = <<>>
    /\ scheduled = 0
    /\ delivered = 0
    /\ calls = 0
    /\ lastCall = NoCall
    /\ ret = NoRet
    /\ sizeMode = [n \in Nodes |-> IF isScene(n) THEN SceneSizeMode ELSE DefaultSizeMode]
    /\ size = [n \in Nodes |-> IF isScene(n) THEN SceneSize ELSE DefaultSize]
    /\ calculatedSize = [n \in Nodes |-> XYZ(0, 0, 0)]
    /\ live = [n \in Nodes |-> FALSE]
    /\ deps = [n \in Nodes |-> {}]
    /\ pending = <<>>
    /\ nodesToBeRendered = {n \in Nodes : isScene(n)}
    /\ elementParentSize = XYZ(0, 0, 0)
    /\ hostSize = InitialHostSize
    /\ observing = FALSE
    /\ staleObserver = FALSE
    /\ observePending = FALSE
    /\ composed = <<>>
    /\ sizeOps = 0
    /\ Constructed

\* ---------------------------------------------------------------- actions
\* The returned array follows the node's own array only when it is that array.
SyncRet(newChildren) ==
    IF ret.alias THEN [ret EXCEPT !.val = newChildren[ret.owner]] ELSE ret

\* The reactive and sizing state a step leaves behind.
CommitSize(st) ==
    /\ sizeMode' = st.sizeMode
    /\ size' = st.size
    /\ calculatedSize' = st.calculatedSize
    /\ live' = st.live
    /\ deps' = st.deps
    /\ pending' = st.pending
    /\ nodesToBeRendered' = st.nodesToBeRendered
    /\ elementParentSize' = st.elementParentSize
    /\ observing' = st.observing
    /\ staleObserver' = st.staleObserver
    /\ observePending' = st.observePending
    /\ composed' = st.composed
    /\ webgl' = st.webgl
    /\ enableCss' = st.enableCss
    /\ glLoaded' = st.glLoaded
    /\ cssLoaded' = st.cssLoaded
    /\ three' = st.three
    /\ threeCSS' = st.threeCSS
    /\ scene' = st.scene
    /\ position' = st.position
    /\ alignPoint' = st.alignPoint
    /\ mountPoint' = st.mountPoint
    /\ uncomposed' = st.uncomposed
    /\ switchedOff' = st.switchedOff
    /\ willBeRendered' = st.willBeRendered
    /\ ticks' = st.ticks
    /\ listening' = st.listening
    /\ emitted' = st.emitted
    /\ gltf' = st.gltf
    /\ cameras' = st.cameras
    /\ rotation' = st.rotation
    /\ delivery' = st.delivery
    /\ sceneGraph' = sceneGraph

\* The program state a structural call leaves behind.
CommitTree(st0) ==
    \E st \in {st0} :
    /\ parent' = st.parent
    /\ children' = st.children
    /\ isConnected' = st.isConnected
    /\ deferred' = st.deferred
    /\ scheduled' = st.scheduled
    /\ invoked' = st.invoked
    /\ ret' = SyncRet(st.children)
    /\ CommitSize(st)
    /\ UNCHANGED <<delivered, hostSize, sizeOps, toggles>>

\* A structural call, entered in the call log.
Commit(st, op, self, childNode, n) ==
    /\ CommitTree(st)
    /\ calls' = calls + n
    /\ lastCall' = [op |-> op, self |-> self, child |-> childNode,
                    result |-> st.result,
                    oldParent |-> IF childNode = NULL THEN NULL ELSE parent[childNode],
                    visited |-> <<>>]

Add(self, childNode) ==
    /\ calls < MaxCalls
    /\ Commit(add(Enter, self, childNode), "add", self, childNode, 1)

RemoveNode(self, childNode) ==
    /\ calls < MaxCalls
    /\ Commit(removeNode(Enter, self, childNode), "removeNode", self, childNode, 1)

AddChildren(self, nodes) ==
    /\ calls + Len(nodes) <= MaxCalls
    /\ Commit(addChildren(Enter, self, nodes), "addChildren", self, NULL, Len(nodes))

RemoveChildren(self, nodes) ==
    /\ calls + Len(nodes) <= MaxCalls
    /\ Commit(removeChildren(Enter, self, nodes), "removeChildren", self, NULL, Len(nodes))

RemoveAllChildren(self) ==
    /\ calls < MaxCalls
    /\ calls + Len(children[self]) <= MaxCalls
    /\ Commit(removeAllChildren(Enter, self), "removeAllChildren", self, NULL,
              IF children[self] = <<>> THEN 1 ELSE Len(children[self]))

\* The oldest deferred closure runs and invokes its two callbacks.
Deliver ==
    /\ deferred # <<>>
    /\ invoked' = Callbacks(Head(deferred))
    /\ deferred' = Tail(deferred)
    /\ delivered' = delivered + 1
    /\ UNCHANGED <<parent, children, isConnected, scheduled, calls, lastCall, ret>>
    /\ UNCHANGED sizeVars
    /\ UNCHANGED gfxVars

Traverse(n) ==
    /\ lastCall' = [op |-> "traverse", self |-> n, child |-> NULL,
                    result |-> IF traverse(n, 1).overflow THEN "throw" ELSE "done",
                    oldParent |-> NULL, visited |-> traverse(n, 1).visited]
    /\ invoked' = <<>>
    /\ UNCHANGED <<parent, children, isConnected, deferred, scheduled, delivered,
                   calls, ret>>
    /\ UNCHANGED sizeVars
    /\ UNCHANGED gfxVars

GetSubnodes(n) ==
    /\ ret' = subnodes(n)
    /\ invoked' = <<>>
    /\ UNCHANGED <<parent, children, isConnected, deferred, scheduled, delivered,
                   calls, lastCall>>
    /\ UNCHANGED sizeVars
    /\ UNCHANGED gfxVars

\* The caller changes the array it was handed, once per read: pop(),
\* push(x) or length = 0.
MutateReturned(newVal) ==
    /\ ret.owner # NULL
    /\ ~ret.mutated
    /\ newVal # ret.val
    /\ ret' = [ret EXCEPT !.val = newVal, !.mutated = TRUE]
    /\ children' = IF ret.alias THEN [children EXCEPT ![ret.owner] = newVal] ELSE children
    /\ invoked' = <<>>
    /\ UNCHANGED <<parent, isConnected, deferred, scheduled, delivered, calls, lastCall>>
    /\ UNCHANGED sizeVars
    /\ UNCHANGED gfxVars

\* Arrays of two nodes handed to addChildren / removeChildren.
Pairs ==
    {<<x, y>> : x \in Nodes, y \in Nodes}

\* What the caller can turn the returned array into.
Mutations(val) ==
    {Append(val, x) : x \in Nodes}
        \cup (IF val = <<>> THEN {} ELSE {SubSeq(val, 1, Len(val) - 1), <<>>})

Next ==
    \/ \E self \in Nodes, c \in Nodes : Add(self, c)
    \/ \E self \in Nodes, c \in Nodes : RemoveNode(self, c)
    \/ \E self \in Nodes, ns \in Pairs : AddChildren(self, ns)
    \/ \E self \in Nodes, ns \in Pairs : RemoveChildren(self, ns)
    \/ \E self \in Nodes : RemoveAllChildren(self)
    \/ Deliver

Spec ==
    Init /\ [][Next]_vars

\* One synchronous burst of structural calls and subnodes reads: no deferred
\* closure runs before the burst ends.
ReadNext ==
    \/ \E self \in Nodes, c \in Nodes : Add(self, c)
    \/ \E self \in Nodes, c \in Nodes : RemoveNode(self, c)
    \/ \E n \in Nodes : GetSubnodes(n)
    \/ \E v \in Mutations(ret.val) : MutateReturned(v)

ReadSpec ==
    Init /\ [][ReadNext]_vars

\* One synchronous burst of structural calls and traversals.
TraverseNext ==
    \/ \E self \in Nodes, c \in Nodes : Add(self, c)
    \/ \E self \in Nodes, c \in Nodes : RemoveNode(self, c)
    \/ \E n \in Nodes : Traverse(n)

TraverseSpec ==
    Init /\ [][TraverseNext]_vars

\* ----------------------------------------------------------- size actions
\* The objects that have a size: the Scene and the Nodes.
Sized ==
    {n \in Nodes : IsImperativeBase(n)}

\* The values callers assign to sizeMode and size.
SizeModes ==
    {XYZ("literal", "literal", "literal"),
     XYZ("proportional", "proportional", "proportional")}

Sizes ==
    {XYZ(Num(2), Num(1), Num(2))}

\* The step of a caller that leaves the tree alone.
CommitProps(st0) ==
    \E st \in {st0} :
    /\ CommitSize(st)
    /\ invoked' = <<>>
    /\ UNCHANGED <<parent, children, isConnected, deferred, scheduled, delivered,
                   calls, lastCall, ret>>

\* Scene.mount(): the Scene's element and those of its descendants enter the
\* document.
Mount ==
    /\ \E n \in Nodes : isScene(n) /\ ~live[n] /\ parent[n] = NULL
    /\ LET n == CHOOSE n \in Nodes : isScene(n)
       IN  CommitProps(connectAll(Enter, subtreeOf(Enter, n, Cardinality(Nodes))))
    /\ UNCHANGED <<hostSize, sizeOps, toggles>>

\* node.size = value
SetSize(n, value) ==
    /\ sizeOps < MaxSizeOps
    /\ value # size[n]
    /\ CommitProps(trigger([Enter EXCEPT !.size[n] = value], <<"size", n>>))
    /\ sizeOps' = sizeOps + 1
    /\ UNCHANGED <<hostSize, toggles>>

\* node.sizeMode = value
SetSizeMode(n, value) ==
    /\ sizeOps < MaxSizeOps
    /\ value # sizeMode[n]
    /\ CommitProps(trigger([Enter EXCEPT !.sizeMode[n] = value], <<"sizeMode", n>>))
    /\ sizeOps' = sizeOps + 1
    /\ UNCHANGED <<hostSize, toggles>>

\* The element the Scene is mounted in gets another content-box size; every
\* ResizeObserver observing it has an observation to deliver.
HostResize(value) ==
    /\ sizeOps < MaxSizeOps
    /\ value # hostSize
    /\ hostSize' = value
    /\ sizeOps' = sizeOps + 1
    /\ observePending' = (observing \/ staleObserver)
    /\ invoked' = <<>>
    /\ UNCHANGED <<parent, children, isConnected, deferred, scheduled, delivered,
                   calls, lastCall, ret>>
    /\ UNCHANGED <<sizeMode, size, calculatedSize, live, deps, pending,
                   nodesToBeRendered, elementParentSize, observing, staleObserver,
                   composed>>
    /\ UNCHANGED gfxVars

\* The nodes from n up to its root, n included, while the tree has no cycle.
RECURSIVE inclusiveAncestors(_, _)
inclusiveAncestors(n, seen) ==
    IF n = NULL \/ n \in seen
    THEN seen
    ELSE inclusiveAncestors(parent[n], seen \cup {n})

\* self.add(childNode) for a Node that is not yet a child of self and that
\* the DOM accepts under self (appendChild rejects a node that contains
\* self); the call log is not kept.
Attach(self, childNode) ==
    /\ calls < MaxCalls
    /\ isNode(childNode)
    /\ parent[childNode] # self
    /\ childNode \notin inclusiveAncestors(self, {})
    /\ CommitTree(add(Enter, self, childNode))
    /\ calls' = calls + 1
    /\ UNCHANGED lastCall

\* self.removeNode(childNode) for a child of self; the call log is not kept.
Detach(self, childNode) ==
    /\ calls < MaxCalls
    /\ parent[childNode] = self
    /\ CommitTree(removeNode(Enter, self, childNode))
    /\ calls' = calls + 1
    /\ UNCHANGED lastCall

\* No microtask is waiting.
Idle ==
    deferred = <<>> /\ uncomposed = <<>> /\ composed = <<>> /\ pending = <<>>

\* The ResizeObserver callback: #checkSize(width, height).
ObserverFire ==
    /\ Idle
    /\ observePending
    /\ LET n == CHOOSE n \in Nodes : isScene(n)
           st == checkSize(Enter, n, hostSize.x, hostSize.y)
       IN  CommitProps([st EXCEPT !.observePending = FALSE])
    /\ UNCHANGED <<hostSize, sizeOps, toggles>>

\* The microtask checkpoint: deferred closures, composed-child reports and
\* scheduled autoruns all run.
Drain ==
    /\ ~Idle
    /\ \E st \in {runPending(runComposed(runUncomposed(runDeferred(Enter))))} :
           /\ CommitSize(st)
           /\ parent' = st.parent
           /\ children' = st.children
           /\ isConnected' = st.isConnected
           /\ deferred' = st.deferred
           /\ scheduled' = st.scheduled
           /\ invoked' = st.invoked
           /\ delivered' = delivered + Len(deferred)
           /\ ret' = SyncRet(st.children)
    /\ UNCHANGED <<calls, lastCall, hostSize, sizeOps, toggles>>

\* Variant: the nodes handed to Motor in the order they were created.
toBeRendered_Created(st) ==
    SelectSeq(<<"s", "a", "b">>, LAMBDA n : n \in st.nodesToBeRendered)

\* The nodes handed to Motor, parents before children.
toBeRendered(st) ==
    LET roots == SelectSeq(<<"s", "a", "b">>, LAMBDA n : st.parent[n] = NULL)
        all == subtreesOf(st, roots, 1, Cardinality(Nodes))
    IN  SelectSeq(all, LAMBDA n : n \in st.nodesToBeRendered)

\* node._render() for every node of nodes, in order.
RECURSIVE renderAll(_, _)
renderAll(st0, nodes) ==
    Then(st0, LAMBDA st :
    IF nodes = <<>>
    THEN st
    ELSE renderAll(render(st, Head(nodes)), Tail(nodes)))

\* node._calculateWorldMatricesInSubtree() for every node of nodes, in order.
RECURSIVE worldAll(_, _)
worldAll(st0, nodes) ==
    Then(st0, LAMBDA st :
    IF nodes = <<>>
    THEN st
    ELSE worldAll(calculateWorldMatricesInSubtree(st, Head(nodes)), Tail(nodes)))

\* _getNearestAncestorThatShouldBeRendered(): the nearest ancestor handed to
\* Motor (_willBeRendered), NULL for false.
RECURSIVE getNearestAncestorThatShouldBeRendered(_, _, _)
getNearestAncestorThatShouldBeRendered(st, n, fuel) ==
    IF st.parent[n] = NULL \/ fuel = 0
    THEN NULL
    ELSE IF st.willBeRendered[st.parent[n]]
         THEN st.parent[n]
         ELSE getNearestAncestorThatShouldBeRendered(st, st.parent[n], fuel - 1)

\* The nodes handed to Motor that have no ancestor handed to it.
treesToUpdate(st) ==
    SelectSeq(toBeRendered(st), LAMBDA n :
        getNearestAncestorThatShouldBeRendered(st, n, Cardinality(Nodes)) = NULL)

\* One frame of Motor: the nodes handed to it are rendered, the world
\* matrices of the subtrees they are in are brought up to date, and the nodes
\* are forgotten.
frame(st0) ==
    Then(st0, LAMBDA st :
    [worldAll(renderAll(st, toBeRendered(st)), treesToUpdate(st))
        EXCEPT !.nodesToBeRendered = {},
               !.willBeRendered = [n \in Nodes |-> FALSE],
               !.ticks = @ - 1])

\* The animation frame.
Tick ==
    /\ Idle
    /\ ticks > 0
    /\ CommitProps(frame(Enter))
    /\ UNCHANGED <<hostSize, sizeOps, toggles>>

SizeNext ==
    \/ Mount
    \/ \E self \in Sized, c \in Sized : Attach(self, c)
    \/ \E self \in Sized, c \in Sized : Detach(self, c)
    \/ \E n \in Sized, v \in Sizes : SetSize(n, v)
    \/ \E n \in Sized, v \in SizeModes : SetSizeMode(n, v)
    \/ \E v \in HostSizes : HostResize(v)
    \/ ObserverFire
    \/ Drain
    \/ Tick

SizeSpec ==
    Init /\ [][SizeNext]_vars

\* Nodes created with size attributes: each Node is built with a non-zero
\* size and with either every axis literal or every axis proportional.
BuiltWithSizes ==
    /\ parent = [n \in Nodes |-> NULL]
    /\ children = [n \in Nodes |-> <<>>]
    /\ isConnected = [n \in Nodes |-> FALSE]
    /\ deferred = <<>>
    /\ invoked = <<>>
    /\ scheduled = 0
    /\ delivered = 0
    /\ calls = 0
    /\ lastCall = NoCall
    /\ ret = NoRet
    /\ sizeMode \in {m \in [Nodes -> SizeModes \cup {SceneSizeMode}] :
                       /\ \A n \in Nodes : isScene(n) => m[n] = SceneSizeMode
                       /\ \A n \in Nodes : ~isScene(n) => m[n] \in SizeModes
                       /\ \A n \in Nodes : ~IsImperativeBase(n) => m[n] = DefaultSizeMode}
    /\ size = [n \in Nodes |-> IF isScene(n) THEN SceneSize
                               ELSE IF isNode(n) THEN CHOOSE v \in Sizes : TRUE
                               ELSE DefaultSize]
    /\ calculatedSize = [n \in Nodes |-> XYZ(0, 0, 0)]
    /\ live = [n \in Nodes |-> FALSE]
    /\ deps = [n \in Nodes |-> {}]
    /\ pending = <<>>
    /\ nodesToBeRendered = {n \in Nodes : isScene(n)}
    /\ elementParentSize = XYZ(0, 0, 0)
    /\ hostSize = InitialHostSize
    /\ observing = FALSE
    /\ staleObserver = FALSE
    /\ observePending = FALSE
    /\ composed = <<>>
    /\ sizeOps = 0
    /\ Constructed

\* Sizing of trees of Nodes built with sizes: the tree is put together and
\* mounted, sizeModes are rewritten and the host is resized.
PropagationNext ==
    \/ Mount
    \/ \E self \in Sized, c \in Sized : Attach(self, c)
    \/ \E n \in Sized, v \in SizeModes : SetSizeMode(n, v)
    \/ \E v \in HostSizes : HostResize(v)
    \/ ObserverFire
    \/ Drain
    \/ Tick

PropagationSpec ==
    BuiltWithSizes /\ [][PropagationNext]_vars

\* The scenario of a Scene mounted in an 800 x 600 element: Node a is built
\* proportional on x and y with size (0.5, 0.5), Node b literal with size
\* (100, 50).
Host800x600 ==
    XYZ(Num(800), Num(600), 0)

ScenarioBuilt ==
    /\ parent = [n \in Nodes |-> NULL]
    /\ children = [n \in Nodes |-> <<>>]
    /\ isConnected = [n \in Nodes |-> FALSE]
    /\ deferred = <<>>
    /\ invoked = <<>>
    /\ scheduled = 0
    /\ delivered = 0
    /\ calls = 0
    /\ lastCall = NoCall
    /\ ret = NoRet
    /\ sizeMode = [n \in Nodes |->
                      IF isScene(n) THEN SceneSizeMode
                      ELSE IF n = "a" THEN XYZ("proportional", "proportional", "literal")
                      ELSE DefaultSizeMode]
    /\ size = [n \in Nodes |->
                  IF isScene(n) THEN SceneSize
                  ELSE IF n = "a" THEN XYZ(OneHalf, OneHalf, 0)
                  ELSE IF n = "b" THEN XYZ(Num(100), Num(50), 0)
                  ELSE DefaultSize]
    /\ calculatedSize = [n \in Nodes |-> XYZ(0, 0, 0)]
    /\ live = [n \in Nodes |-> FALSE]
    /\ deps = [n \in Nodes |-> {}]
    /\ pending = <<>>
    /\ nodesToBeRendered = {n \in Nodes : isScene(n)}
    /\ elementParentSize = XYZ(0, 0, 0)
    /\ hostSize = Host800x600
    /\ observing = FALSE
    /\ staleObserver = FALSE
    /\ observePending = FALSE
    /\ composed = <<>>
    /\ sizeOps = 0
    /\ Constructed

\* The tree of the scenario is put together and mounted in any order.
ScenarioNext ==
    \/ Mount
    \/ \E self \in Sized, c \in Sized : Attach(self, c)
    \/ \E self \in Sized, c \in Sized : Detach(self, c)
    \/ ObserverFire
    \/ Drain
    \/ Tick

ScenarioSpec ==
    ScenarioBuilt /\ [][ScenarioNext]_vars

\* ------------------------------------------------------ transform actions
\* The position, alignPoint and mountPoint a Node is built with: all 0 but
\* position (10, 0, 0), or every one of them non-zero.
Transforms ==
    {[position |-> XYZ(Num(10), 0, 0), alignPoint |-> XYZ(0, 0, 0),
      mountPoint |-> XYZ(0, 0, 0)],
     [position |-> XYZ(Num(1), Num(2), Num(3)), alignPoint |-> XYZ(OneHalf, Num(1), 0),
      mountPoint |-> XYZ(Num(1), OneHalf, OneHalf)]}

\* The scenario of ScenarioBuilt, with b given a depth of 10, every Node
\* built with one of the Transforms and the Scene built with or without the
\* webgl attribute.
TransformBuilt ==
    /\ parent = [n \in Nodes |-> NULL]
    /\ children = [n \in Nodes |-> <<>>]
    /\ isConnected = [n \in Nodes |-> FALSE]
    /\ deferred = <<>>
    /\ invoked = <<>>
    /\ scheduled = 0
    /\ delivered = 0
    /\ calls = 0
    /\ lastCall = NoCall
    /\ ret = NoRet
    /\ sizeMode = [n \in Nodes |->
                      IF isScene(n) THEN SceneSizeMode
                      ELSE IF n = "a" THEN XYZ("proportional", "proportional", "literal")
                      ELSE DefaultSizeMode]
    /\ size = [n \in Nodes |->
                  IF isScene(n) THEN SceneSize
                  ELSE IF n = "a" THEN XYZ(OneHalf, OneHalf, 0)
                  ELSE IF n = "b" THEN XYZ(Num(100), Num(50), Num(10))
                  ELSE DefaultSize]
    /\ calculatedSize = [n \in Nodes |-> XYZ(0, 0, 0)]
    /\ live = [n \in Nodes |-> FALSE]
    /\ deps = [n \in Nodes |-> {}]
    /\ pending = <<>>
    /\ nodesToBeRendered = {n \in Nodes : isScene(n)}
    /\ elementParentSize = XYZ(0, 0, 0)
    /\ hostSize = Host800x600
    /\ observing = FALSE
    /\ staleObserver = FALSE
    /\ observePending = FALSE
    /\ composed = <<>>
    /\ sizeOps = 0
    /\ webgl \in BOOLEAN
    /\ enableCss = TRUE
    /\ glLoaded = [n \in Nodes |-> FALSE]
    /\ cssLoaded = [n \in Nodes |-> FALSE]
    /\ three = [n \in Nodes |-> NoObject]
    /\ threeCSS = [n \in Nodes |-> NoObject]
    /\ scene = [n \in Nodes |-> IF isScene(n) THEN n ELSE NULL]
    /\ \E ta \in Transforms, tb \in Transforms :
           LET of(n) == IF n = "a" THEN ta ELSE tb
           IN  /\ position = [n \in Nodes |->
                                 IF isNode(n) THEN of(n).position ELSE XYZ(0, 0, 0)]
               /\ alignPoint = [n \in Nodes |->
                                   IF isNode(n) THEN of(n).alignPoint ELSE XYZ(0, 0, 0)]
               /\ mountPoint = [n \in Nodes |->
                                   IF isNode(n) THEN of(n).mountPoint ELSE XYZ(0, 0, 0)]
    /\ uncomposed = <<>>
    /\ toggles = 0
    /\ switchedOff = {}
    /\ Scheduled
    /\ listening = FALSE
    /\ emitted = <<>>
    /\ gltf = NoBehavior
    /\ cameras = NoCameras
    /\ rotation = [n \in Nodes |-> XYZ(0, 0, 0)]
    /\ delivery = NoDelivery
    /\ sceneGraph = NoGraph

\* The tree is put together and mounted in any order, and frames render it.
TransformNext ==
    \/ Mount
    \/ \E self \in Sized, c \in Sized : Attach(self, c)
    \/ \E self \in Sized, c \in Sized : Detach(self, c)
    \/ ObserverFire
    \/ Drain
    \/ Tick

TransformSpec ==
    TransformBuilt /\ [][TransformNext]_vars

\* -------------------------------------------------------- backend actions
\* scene.webgl = value: the autoruns that read webgl are scheduled.
SetWebgl(value) ==
    /\ toggles < MaxToggles
    /\ value # webgl
    /\ CommitProps(trigger([Enter EXCEPT !.webgl = value], <<"webgl", "s">>))
    /\ toggles' = toggles + 1
    /\ UNCHANGED <<hostSize, sizeOps>>

\* scene.enableCss = value: the autoruns that read enableCss are scheduled.
SetEnableCss(value) ==
    /\ toggles < MaxToggles
    /\ value # enableCss
    /\ CommitProps(trigger([Enter EXCEPT !.enableCss = value], <<"enableCss", "s">>))
    /\ toggles' = toggles + 1
    /\ UNCHANGED <<hostSize, sizeOps>>

\* The scenario's nodes after scene.add(a); a.add(b) and the microtasks that
\* follow, before the Scene is mounted: no element is in the document, no
\* autorun runs, nothing is loaded. The counters of calls and of callbacks
\* start again at 0.
BackendTree ==
    /\ parent = [n \in Nodes |-> IF n = "a" THEN "s" ELSE IF n = "b" THEN "a" ELSE NULL]
    /\ children = [n \in Nodes |->
                      IF n = "s" THEN <<"a">> ELSE IF n = "a" THEN <<"b">> ELSE <<>>]
    /\ isConnected = [n \in Nodes |-> n \in {"a", "b"}]
    /\ deferred = <<>>
    /\ invoked = <<>>
    /\ scheduled = 0
    /\ delivered = 0
    /\ calls = 0
    /\ lastCall = NoCall
    /\ ret = NoRet
    /\ sizeMode = [n \in Nodes |->
                      IF isScene(n) THEN SceneSizeMode
                      ELSE IF n = "a" THEN XYZ("proportional", "proportional", "literal")
                      ELSE DefaultSizeMode]
    /\ size = [n \in Nodes |->
                  IF isScene(n) THEN SceneSize
                  ELSE IF n = "a" THEN XYZ(OneHalf, OneHalf, 0)
                  ELSE IF n = "b" THEN XYZ(Num(100), Num(50), 0)
                  ELSE DefaultSize]
    /\ calculatedSize = [n \in Nodes |-> XYZ(0, 0, 0)]
    /\ live = [n \in Nodes |-> FALSE]
    /\ deps = [n \in Nodes |-> {}]
    /\ pending = <<>>
    /\ nodesToBeRendered = {n \in Nodes : isScene(n)}
    /\ elementParentSize = XYZ(0, 0, 0)
    /\ hostSize = Host800x600
    /\ observing = FALSE
    /\ staleObserver = FALSE
    /\ observePending = FALSE
    /\ composed = <<>>
    /\ sizeOps = 0

BackendBuilt ==
    /\ BackendTree
    /\ Constructed

\* The Scene is mounted, nodes are added, moved and removed, and either
\* rendering is switched on and off, in any order.
BackendNext ==
    \/ Mount
    \/ \E self \in Sized, c \in Sized : Attach(self, c)
    \/ \E self \in Sized, c \in Sized : Detach(self, c)
    \/ \E v \in BOOLEAN : SetWebgl(v)
    \/ \E v \in BOOLEAN : SetEnableCss(v)
    \/ ObserverFire
    \/ Drain
    \/ Tick

BackendSpec ==
    BackendBuilt /\ [][BackendNext]_vars

\* -------------------------------------------------------- rotation actions
\* The nodes of BackendBuilt with both Nodes rotated about X and Z.
RotationBuilt ==
    /\ BackendTree
    /\ Defaults
    /\ listening = FALSE
    /\ rotation = [n \in Nodes |-> IF isNode(n) THEN XYZ(30, 0, 10) ELSE XYZ(0, 0, 0)]
    /\ delivery = NoDelivery
    /\ sceneGraph = NoGraph

RotationSpec ==
    RotationBuilt /\ [][BackendNext]_vars

\* -------------------------------------------------------- delivery actions
\* Number of direct calls of _triggerLoadGL / _triggerUnloadGL in a run.
MaxTriggers ==
    3

\* The nodes of BackendBuilt with the deferred GL events followed.
DeliveryBuilt ==
    /\ BackendTree
    /\ Defaults
    /\ listening = FALSE
    /\ rotation = [n \in Nodes |-> XYZ(0, 0, 0)]
    /\ delivery = [NoDelivery EXCEPT !.on = TRUE]
    /\ sceneGraph = NoGraph

\* node._triggerLoadGL()
TriggerLoadGL(n) ==
    /\ delivery.calls < MaxTriggers
    /\ CommitProps([triggerLoadGL(Enter, n) EXCEPT !.delivery.calls = @ + 1])
    /\ UNCHANGED <<hostSize, sizeOps, toggles>>

\* node._triggerUnloadGL()
TriggerUnloadGL(n) ==
    /\ delivery.calls < MaxTriggers
    /\ CommitProps([triggerUnloadGL(Enter, n) EXCEPT !.delivery.calls = @ + 1])
    /\ UNCHANGED <<hostSize, sizeOps, toggles>>

\* One microtask of those that deliver GL events runs.
Microtask ==
    /\ delivery.queue # <<>>
    /\ CommitProps(runMicrotask(Enter))
    /\ UNCHANGED <<hostSize, sizeOps, toggles>>

\* The Scene's webgl attribute is written before the Scene is mounted, the
\* GL rendering of nodes is loaded and unloaded, and microtasks run, in any
\* order.
DeliveryNext ==
    \/ \E v \in BOOLEAN : SetWebgl(v)
    \/ \E n \in Sized : TriggerLoadGL(n)
    \/ \E n \in Sized : TriggerUnloadGL(n)
    \/ Microtask

DeliverySpec ==
    DeliveryBuilt /\ [][DeliveryNext]_vars

\* --------------------------------------------------------- event actions
\* The nodes of BackendBuilt with a listener for their events.
EventBuilt ==
    /\ BackendTree
    /\ Defaults
    /\ listening = TRUE
    /\ rotation = [n \in Nodes |-> XYZ(0, 0, 0)]
    /\ delivery = NoDelivery
    /\ sceneGraph = NoGraph

\* The Scene is mounted, nodes are added, moved and removed, and either
\* rendering is switched on and off, in any order, with microtask
\* checkpoints in between.
EventNext ==
    \/ Mount
    \/ \E self \in Sized, c \in Sized : Attach(self, c)
    \/ \E self \in Sized, c \in Sized : Detach(self, c)
    \/ \E v \in BOOLEAN : SetWebgl(v)
    \/ \E v \in BOOLEAN : SetEnableCss(v)
    \/ Drain

EventSpec ==
    EventBuilt /\ [][EventNext]_vars

\* --------------------------------------------------------- model actions
\* Number of calls of loadGL and unloadGL and of attribute writes in a run.
MaxModelOps ==
    4

\* The values written to src and to dracoDecoder.
Sources ==
    {"", "m1.gltf", "m2.gltf"}

Decoders ==
    {"", "draco/"}

\* A call or a write of the behavior's user: one more, and remembered when it
\* is a write after an unloadGL.
Used(st, written) ==
    [st EXCEPT !.gltf.ops = @ + 1,
               !.gltf.history =
                   IF written /\ ~st.gltf.isLoadedGL /\ st.gltf.version > 0
                   THEN @ \cup {"writtenUnloaded"}
                   ELSE @]

\* behavior.loadGL()
LoadGL ==
    /\ gltf.ops < MaxModelOps
    /\ CommitProps(Used(GltfModelBehavior_loadGL(Enter), FALSE))
    /\ UNCHANGED <<hostSize, sizeOps, toggles>>

\* behavior.unloadGL()
UnloadGL ==
    /\ gltf.ops < MaxModelOps
    /\ CommitProps(Used(GltfModelBehavior_unloadGL(Enter), FALSE))
    /\ UNCHANGED <<hostSize, sizeOps, toggles>>

\* behavior.src = value
SetSrc(value) ==
    /\ gltf.ops < MaxModelOps
    /\ value # gltf.src
    /\ CommitProps(Used(trigger([Enter EXCEPT !.gltf.src = value],
                                <<"src", Element>>), TRUE))
    /\ UNCHANGED <<hostSize, sizeOps, toggles>>

\* behavior.dracoDecoder = value
SetDracoDecoder(value) ==
    /\ gltf.ops < MaxModelOps
    /\ value # gltf.dracoDecoder
    /\ CommitProps(Used(trigger([Enter EXCEPT !.gltf.dracoDecoder = value],
                                <<"dracoDecoder", Element>>), TRUE))
    /\ UNCHANGED <<hostSize, sizeOps, toggles>>

\* behavior.centerGeometry = value
SetCenterGeometry(value) ==
    /\ gltf.ops < MaxModelOps
    /\ value # gltf.centerGeometry
    /\ CommitProps(Used(trigger([Enter EXCEPT !.gltf.centerGeometry = value],
                                <<"centerGeometry", Element>>), TRUE))
    /\ UNCHANGED <<hostSize, sizeOps, toggles>>

\* The GLTFLoader calls back for a load under way: the model is there.
LoadDone(version) ==
    /\ version \in gltf.loads
    /\ CommitProps(onLoad(Enter, version))
    /\ UNCHANGED <<hostSize, sizeOps, toggles>>

\* The GLTFLoader reports progress of a load under way.
LoadProgress(version) ==
    /\ version \in gltf.loads
    /\ CommitProps(onProgress(Enter, version))
    /\ UNCHANGED <<hostSize, sizeOps, toggles>>

\* The GLTFLoader calls back for a load under way: it failed.
LoadFailed(version) ==
    /\ version \in gltf.loads
    /\ CommitProps(onLoadError(Enter, version))
    /\ UNCHANGED <<hostSize, sizeOps, toggles>>

\* The behavior of b is loaded and unloaded, its attributes are written,
\* microtask checkpoints run and loads finish, in any order.
ModelNext ==
    \/ LoadGL
    \/ UnloadGL
    \/ \E v \in Sources : SetSrc(v)
    \/ \E v \in Decoders : SetDracoDecoder(v)
    \/ \E v \in BOOLEAN : SetCenterGeometry(v)
    \/ \E v \in 1..(2 * MaxModelOps) : LoadDone(v)
    \/ \E v \in 1..(2 * MaxModelOps) : LoadProgress(v)
    \/ \E v \in 1..(2 * MaxModelOps) : LoadFailed(v)
    \/ Drain

ModelSpec ==
    EventBuilt /\ [][ModelNext]_vars

\* -------------------------------------------------------- removal actions
\* The arrays that hold nodes of S, each at most once.
Orderings(S) ==
    {seq \in UNION {[1..k -> S] : k \in 0..Cardinality(S)} :
        \A i \in DOMAIN seq, j \in DOMAIN seq : i # j => seq[i] # seq[j]}

\* The objects after root.addChildren(kids) and the microtasks that follow,
\* for the plain TreeNode (which takes any node) and for the Scene (which
\* takes Nodes); the counters of calls and of callbacks start at 0.
RemovalBuilt ==
    /\ \E root \in {"t", "s"} :
       \E kids \in Orderings(IF root = "t" THEN {"s", "a", "b"} ELSE {"a", "b"}) :
           /\ children = [n \in Nodes |-> IF n = root THEN kids ELSE <<>>]
           /\ parent = [n \in Nodes |-> IF Has(kids, n) THEN root ELSE NULL]
           /\ isConnected = [n \in Nodes |-> Has(kids, n)]
    /\ deferred = <<>>
    /\ invoked = <<>>
    /\ scheduled = 0
    /\ delivered = 0
    /\ calls = 0
    /\ lastCall = NoCall
    /\ ret = NoRet
    /\ sizeMode = [n \in Nodes |-> IF isScene(n) THEN SceneSizeMode ELSE DefaultSizeMode]
    /\ size = [n \in Nodes |-> IF isScene(n) THEN SceneSize ELSE DefaultSize]
    /\ calculatedSize = [n \in Nodes |-> XYZ(0, 0, 0)]
    /\ live = [n \in Nodes |-> FALSE]
    /\ deps = [n \in Nodes |-> {}]
    /\ pending = <<>>
    /\ nodesToBeRendered = {n \in Nodes : isScene(n)}
    /\ elementParentSize = XYZ(0, 0, 0)
    /\ hostSize = InitialHostSize
    /\ observing = FALSE
    /\ staleObserver = FALSE
    /\ observePending = FALSE
    /\ composed = <<>>
    /\ sizeOps = 0
    /\ Constructed

\* Children are removed one by one, by list and all at once, and the
\* deferred callbacks are delivered, in any order.
RemovalNext ==
    \/ \E self \in Nodes, c \in Nodes : RemoveNode(self, c)
    \/ \E self \in Nodes, ns \in Pairs : RemoveChildren(self, ns)
    \/ \E self \in Nodes : RemoveAllChildren(self)
    \/ Deliver

RemovalSpec ==
    RemovalBuilt /\ [][RemovalNext]_vars

\* -------------------------------------------------------- camera actions
\* Number of _addCamera / _removeCamera calls in a run.
MaxCameraOps ==
    5

\* The camera elements.
Cameras ==
    {"c1", "c2", "c3"}

\* A camera element becomes active (also one that is active already): it is
\* the one activated last.
AddCamera(camera) ==
    /\ cameras.ops < MaxCameraOps
    /\ CommitProps([Scene_addCamera(Enter, "s", camera) EXCEPT
                       !.cameras.ops = @ + 1,
                       !.cameras.activated =
                           Append(SelectSeq(@, LAMBDA y : y # camera), camera)])
    /\ UNCHANGED <<hostSize, sizeOps, toggles>>

\* A camera element stops being active (also one that is not active).
RemoveCamera(camera) ==
    /\ cameras.ops < MaxCameraOps
    /\ CommitProps([Scene_removeCamera(Enter, "s", camera) EXCEPT
                       !.cameras.ops = @ + 1,
                       !.cameras.activated = SelectSeq(@, LAMBDA y : y # camera)])
    /\ UNCHANGED <<hostSize, sizeOps, toggles>>

\* Camera elements of the Scene become active and stop being active, in any
\* order.
CameraNext ==
    \/ \E c \in Cameras : AddCamera(c)
    \/ \E c \in Cameras : RemoveCamera(c)

CameraSpec ==
    BackendBuilt /\ [][CameraNext]_vars

\* ------------------------------------------------------ scheduler actions
\* The sizes written in a burst of writes to a node built with size 10.
BurstSizes ==
    {XYZ(Num(20), Num(20), Num(20)), XYZ(Num(15), Num(15), Num(15))}

\* The scenario's tree before the Scene is mounted, with b built with size
\* (10, 10, 10).
SchedulerBuilt ==
    /\ parent = [n \in Nodes |-> IF n = "a" THEN "s" ELSE IF n = "b" THEN "a" ELSE NULL]
    /\ children = [n \in Nodes |->
                      IF n = "s" THEN <<"a">> ELSE IF n = "a" THEN <<"b">> ELSE <<>>]
    /\ isConnected = [n \in Nodes |-> n \in {"a", "b"}]
    /\ deferred = <<>>
    /\ invoked = <<>>
    /\ scheduled = 0
    /\ delivered = 0
    /\ calls = 0
    /\ lastCall = NoCall
    /\ ret = NoRet
    /\ sizeMode = [n \in Nodes |->
                      IF isScene(n) THEN SceneSizeMode
                      ELSE IF n = "a" THEN XYZ("proportional", "proportional", "literal")
                      ELSE DefaultSizeMode]
    /\ size = [n \in Nodes |->
                  IF isScene(n) THEN SceneSize
                  ELSE IF n = "a" THEN XYZ(OneHalf, OneHalf, 0)
                  ELSE IF n = "b" THEN XYZ(Num(10), Num(10), Num(10))
                  ELSE DefaultSize]
    /\ calculatedSize = [n \in Nodes |-> XYZ(0, 0, 0)]
    /\ live = [n \in Nodes |-> FALSE]
    /\ deps = [n \in Nodes |-> {}]
    /\ pending = <<>>
    /\ nodesToBeRendered = {n \in Nodes : isScene(n)}
    /\ elementParentSize = XYZ(0, 0, 0)
    /\ hostSize = Host800x600
    /\ observing = FALSE
    /\ staleObserver = FALSE
    /\ observePending = FALSE
    /\ composed = <<>>
    /\ sizeOps = 0
    /\ Constructed

\* The Scene is mounted, sizes and sizeModes are written, the host is
\* resized, and microtasks and frames run, in any order.
SchedulerNext ==
    \/ Mount
    \/ \E n \in {"a", "b"}, v \in BurstSizes : SetSize(n, v)
    \/ \E n \in Sized, v \in SizeModes : SetSizeMode(n, v)
    \/ \E v \in HostSizes : HostResize(v)
    \/ ObserverFire
    \/ Drain
    \/ Tick

SchedulerSpec ==
    SchedulerBuilt /\ [][SchedulerNext]_vars

\* The browser runs a microtask checkpoint while microtasks wait, delivers
\* the observations of ResizeObservers, and runs a requested animation frame.
FairSchedulerSpec ==
    /\ SchedulerSpec
    /\ WF_vars(Drain)
    /\ WF_vars(ObserverFire)
    /\ WF_vars(Tick)

\* ================================================================= claims
\* Number of places of seq holding x.
Count(seq, x) ==
    Cardinality({i \in 1..Len(seq) : seq[i] = x})

InSeq(seq, x) ==
    \E i \in 1..Len(seq) : seq[i] = x

\* seq without every occurrence of x.
Without(seq, x) ==
    SelectSeq(seq, LAMBDA y : y # x)

\* The nodes reached from n by following parent links one or more times.
RECURSIVE AncestorsFrom(_, _)
AncestorsFrom(n, seen) ==
    IF parent[n] = NULL \/ parent[n] \in seen
    THEN seen
    ELSE AncestorsFrom(parent[n], seen \cup {parent[n]})

Ancestors(n) ==
    AncestorsFrom(n, {})

\* A receiver of class ImperativeBase takes only ImperativeBase children that
\* are not Scenes; a plain TreeNode takes any TreeNode.
Accepts(p, c) ==
    IsImperativeBase(p) => (IsImperativeBase(c) /\ ~isScene(c))

\* The step is a structural call of operation op.
IsCall(op) ==
    calls' > calls /\ lastCall'.op = op

TreeUnchanged ==
    /\ parent' = parent
    /\ children' = children
    /\ isConnected' = isConnected

\* C1: after any sequence of add / removeNode / addChildren / removeChildren
\* calls, A occurs in B's children sequence iff A.parent is B, and it occurs
\* there exactly once.
C1_ParentChildConsistent ==
    \A A \in Nodes, B \in Nodes :
        /\ InSeq(children[B], A) <=> parent[A] = B
        /\ Count(children[B], A) <= 1

\* C1 witness: a child was moved from one parent to another that now has two
\* children.
C1_Witness ==
    /\ lastCall.op = "add"
    /\ lastCall.result = "added"
    /\ lastCall.oldParent \notin {NULL, lastCall.self}
    /\ Len(children[lastCall.self]) = 2

\* C2: no node is reachable from itself by following parent links.
C2_NoNodeIsItsOwnAncestor ==
    \A n \in Nodes : n \notin Ancestors(n)

\* C3: add(parent, child) with child = parent or child an ancestor of parent
\* is rejected with an error and leaves the tree, the connectivity flags and
\* the pending callbacks as they were.
C3_CycleAddRejected ==
    [][(/\ IsCall("add")
        /\ \/ lastCall'.child = lastCall'.self
           \/ lastCall'.child \in Ancestors(lastCall'.self))
       => (/\ lastCall'.result = "throw"
           /\ TreeUnchanged
           /\ deferred' = deferred)]_vars

\* C4: removeNode(parent, child) with child.parent # parent raises an error,
\* whatever the class of child, and changes nothing and schedules nothing.
C4_NotAChildRejected ==
    [][(/\ IsCall("removeNode")
        /\ parent[lastCall'.child] # lastCall'.self)
       => (/\ lastCall'.result = "throw"
           /\ TreeUnchanged
           /\ deferred' = deferred)]_vars

\* What C5 promises of add(p, c) on return.
C5_Post(p, c) ==
    /\ parent'[c] = p
    /\ children'[p] # <<>>
    /\ children'[p][Len(children'[p])] = c
    /\ \A q \in Nodes \ {p} : ~InSeq(children'[q], c)
    /\ \A q \in Nodes : Without(children'[q], c) = Without(children[q], c)

\* C5 as claimed: add(parent, child) on a child that already has a parent,
\* when the receiver accepts the child and the call returns normally (here
\* even only when the tree has no parent cycle), leaves child.parent = parent,
\* child last in parent's children and in no other children sequence, and the
\* order of all other children unchanged.
C5_ReaddAppendsLast ==
    [][(/\ IsCall("add")
        /\ C2_NoNodeIsItsOwnAncestor
        /\ parent[lastCall'.child] # NULL
        /\ Accepts(lastCall'.self, lastCall'.child)
        /\ lastCall'.result # "throw")
       => C5_Post(lastCall'.self, lastCall'.child)]_vars

\* C5 amended: the promise holds when the child's current parent is another
\* node and the receiver accepts the child; when the child's parent already
\* is the receiver, or the receiver does not accept it, the call changes
\* nothing (the child keeps its place).
C5_MoveAppendsLast ==
    [][IsCall("add")
       => LET p == lastCall'.self
              c == lastCall'.child
          IN  /\ (parent[c] \notin {NULL, p} /\ Accepts(p, c)) => C5_Post(p, c)
              /\ (parent[c] = p \/ ~Accepts(p, c))
                    => (TreeUnchanged /\ deferred' = deferred)]_vars

\* C5 witness: a child was moved to a parent that already had a child.
C5_Witness ==
    /\ lastCall.op = "add"
    /\ lastCall.oldParent \notin {NULL, lastCall.self}
    /\ Accepts(lastCall.self, lastCall.child)
    /\ Len(children[lastCall.self]) >= 2
    /\ children[lastCall.self][Len(children[lastCall.self])] = lastCall.child

\* The closure defer() receives for a callback pair.
Closure(type, c, p, id) ==
    [type |-> type, child |-> c, parent |-> p, id |-> id]

\* The pending closures behind the first that concern node c as the child.
LaterFor(c) ==
    {i \in 2..Len(deferred) : deferred[i].child = c}

\* C6: moving A from R to another node C with one add(C, A) schedules exactly
\* one disconnected(A) / childDisconnected(R, A) pair and then exactly one
\* connected(A) / childConnected(C, A) pair, none is invoked inside the call,
\* each pair is delivered as such, and at the delivery of either pair A is not
\* parentless: its parent is C.
C6_MoveCallbacks ==
    [][/\ (/\ IsCall("add")
           /\ parent[lastCall'.child] \notin {NULL, lastCall'.self}
           /\ Accepts(lastCall'.self, lastCall'.child))
          => LET A == lastCall'.child
                 C == lastCall'.self
                 R == parent[A]
             IN  /\ deferred' = deferred \o
                        << Closure("disconnected", A, R, scheduled + 1),
                           Closure("connected", A, C, scheduled + 2) >>
                 /\ invoked' = <<>>
                 /\ parent'[A] = C
       /\ (delivered' = delivered + 1)
          => LET e == Head(deferred)
             IN  /\ invoked' = Callbacks(e)
                 /\ deferred' = Tail(deferred)
                 /\ (/\ e.type = "disconnected"
                     /\ LaterFor(e.child) = {2}
                     /\ deferred[2].type = "connected")
                       => parent[e.child] = deferred[2].parent
                 /\ (e.type = "connected" /\ LaterFor(e.child) = {})
                       => parent[e.child] = e.parent]_vars

\* C6 witness: after add(C, A) moved A, both pairs have been delivered, the
\* connected pair last.
C6_Witness ==
    /\ lastCall.op = "add"
    /\ lastCall.oldParent \notin {NULL, lastCall.self}
    /\ lastCall.result = "added"
    /\ deferred = <<>>
    /\ delivered = scheduled
    /\ invoked = Callbacks(Closure("connected", lastCall.child, lastCall.self, scheduled))

\* The pending closures are those scheduled and not delivered, oldest first.
PendingInOrder ==
    /\ scheduled = delivered + Len(deferred)
    /\ \A i \in 1..Len(deferred) : deferred[i].id = delivered + i

\* C7: no lifecycle callback is invoked inside a structural call; an add that
\* attaches schedules exactly one connected / childConnected closure (behind
\* the disconnected one of a move), a removeNode that detaches schedules
\* exactly one disconnected / childDisconnected closure, a call that changes
\* nothing schedules none; every closure is delivered once, after the call,
\* in scheduling order.
C7_DeferredCallbacks ==
    /\ []PendingInOrder
    /\ [][/\ (calls' > calls) => invoked' = <<>>
          /\ IsCall("add")
             => LET p == lastCall'.self
                    c == lastCall'.child
                IN  IF parent[c] # p /\ Accepts(p, c)
                    THEN deferred' = deferred \o
                            (IF parent[c] = NULL
                             THEN <<>>
                             ELSE <<Closure("disconnected", c, parent[c], scheduled + 1)>>)
                            \o <<Closure("connected", c, p, scheduled')>>
                    ELSE deferred' = deferred
          /\ IsCall("removeNode")
             => LET p == lastCall'.self
                    c == lastCall'.child
                IN  IF parent[c] = p /\ (IsImperativeBase(p) => isNode(c))
                    THEN deferred' = Append(deferred,
                                            Closure("disconnected", c, p, scheduled + 1))
                    ELSE deferred' = deferred
          /\ (delivered' = delivered + 1)
             => /\ deferred # <<>>
                /\ invoked' = Callbacks(Head(deferred))
                /\ Head(deferred).id = delivered'
                /\ deferred' = Tail(deferred)
                /\ calls' = calls]_vars

\* C7 witness: an add and a removeNode have both had their closures delivered.
C7_Witness ==
    /\ lastCall.op = "removeNode"
    /\ lastCall.result = "removed"
    /\ deferred = <<>>
    /\ delivered >= 2
    /\ invoked = Callbacks(Closure("disconnected", lastCall.child, lastCall.self, delivered))

\* The node itself and its descendants.
Subtree(n) ==
    {n} \cup {m \in Nodes : n \in Ancestors(m)}

\* Place of the first occurrence of x in seq (0 when absent).
Pos(seq, x) ==
    IndexOf(seq, x) + 1

\* v lists the subtree of n in pre-order: n first, every node of the subtree
\* once and no other node, every subtree in one block that starts with its
\* root, and the blocks of siblings in the order of the children sequence.
IsPreorder(v, n) ==
    /\ v # <<>>
    /\ v[1] = n
    /\ \A m \in Nodes : Count(v, m) = IF m \in Subtree(n) THEN 1 ELSE 0
    /\ \A m \in Subtree(n) :
          {v[i] : i \in Pos(v, m)..(Pos(v, m) + Cardinality(Subtree(m)) - 1)
                      \cap 1..Len(v)} = Subtree(m)
    /\ \A p \in Subtree(n) : \A i \in 1..Len(children[p]), j \in 1..Len(children[p]) :
          i < j => Pos(v, children[p][i]) < Pos(v, children[p][j])

\* C8: traverse(fn) calls fn exactly once for the node and for each of its
\* descendants, in pre-order by the children sequences, and for no other node.
C8_TraversePreorder ==
    lastCall.op = "traverse"
        => (lastCall.result = "done" /\ IsPreorder(lastCall.visited, lastCall.self))

\* The same on trees: whenever the node's subtree has no parent cycle.
C8_TraversePreorderOnTrees ==
    (lastCall.op = "traverse" /\ \A m \in Subtree(lastCall.self) : m \notin Ancestors(m))
        => (lastCall.result = "done" /\ IsPreorder(lastCall.visited, lastCall.self))

\* The children a call kept keep their order, and those it attached follow them.
KeptThenAdded(old, new) ==
    LET kept == SelectSeq(old, LAMBDA x : InSeq(new, x))
    IN  /\ Len(new) >= Len(kept)
        /\ SubSeq(new, 1, Len(kept)) = kept
        /\ \A i \in (Len(kept) + 1)..Len(new) : ~InSeq(old, new[i])

\* C9: on return of every add / removeNode, childCount is the number of nodes
\* whose parent is the node and subnodes lists exactly those nodes, each once,
\* in insertion order; subnodes is a copy: changing the returned array changes
\* no children sequence, childCount or parent pointer.
C9_ReadAccessors ==
    /\ [](\A n \in Nodes :
            /\ childCount(n) = Cardinality({m \in Nodes : parent[m] = n})
            /\ {subnodes(n).val[i] : i \in 1..Len(subnodes(n).val)}
                   = {m \in Nodes : parent[m] = n}
            /\ Len(subnodes(n).val) = childCount(n))
    /\ [][/\ (calls' > calls)
             => \A n \in Nodes : KeptThenAdded(children[n], children'[n])
          /\ (ret' # ret /\ ~ret'.mutated)
             => ret'.val = children[ret'.owner]
          /\ (ret'.mutated /\ ~ret.mutated)
             => /\ children' = children
                /\ parent' = parent
                /\ \A n \in Nodes : childCount(n)' = childCount(n)]_vars

\* C9 witness: the caller changed the array subnodes returned for a node with
\* two children.
C9_Witness ==
    /\ ret.owner # NULL
    /\ ret.mutated
    /\ childCount(ret.owner) = 2
    /\ ret.val # children[ret.owner]

\* No autorun is scheduled to re-run and no node waits to be rendered.
Settled ==
    pending = <<>> /\ nodesToBeRendered = {}

\* The size an axis of n resolves against: the parent's calculatedSize, or for
\* the parentless Scene the size of the element it is mounted in.
ResolvedParentSize(n) ==
    IF parent[n] # NULL THEN calculatedSize[parent[n]] ELSE elementParentSize

\* The calculatedSize of n on axis ax is what its sizeMode prescribes.
ResolvedAsPrescribed(n, ax) ==
    IF sizeMode[n][ax] = "proportional"
    THEN calculatedSize[n][ax] = Mul(ResolvedParentSize(n)[ax], size[n][ax])
    ELSE calculatedSize[n][ax] = size[n][ax]

\* C10: in every settled state (no autorun scheduled to re-run, no node
\* waiting to be rendered), for every connected node and every axis, a
\* proportional axis resolves to the parent's resolved size times the node's
\* size and a literal axis to the node's own size, whatever size, sizeMode,
\* reparenting and host-size changes came before.
C10_SettledSizesResolved ==
    Settled =>
        \A n \in Sized : live[n] =>
            \A ax \in Axes : ResolvedAsPrescribed(n, ax)

\* A settled state in which a connected node, proportional on x, has resolved
\* against a parent whose own size followed the observed host size.
C10_Witness ==
    /\ Settled
    /\ elementParentSize = hostSize
    /\ \E n \in Sized :
          /\ live[n]
          /\ parent[n] # NULL
          /\ live[parent[n]]
          /\ sizeMode[n].x = "proportional"
          /\ calculatedSize[parent[n]].x > 0
          /\ calculatedSize[n].x = Mul(calculatedSize[parent[n]].x, size[n].x)
          /\ calculatedSize[n].x > calculatedSize[parent[n]].x

\* An autorun of n that resolves its size is scheduled to re-run.
ResolutionScheduled(n) ==
    \/ Has(pending, [node |-> n, fn |-> "size"])
    \/ Has(pending, [node |-> n, fn |-> "parentSize"])

\* C11: when a resolved size changes, every connected descendant that depends
\* on it is re-resolved before the system settles: at every moment a connected
\* node whose resolved size does not follow from its parent's current resolved
\* size has its own re-resolution scheduled, so that staleness is handed down
\* a chain one level per re-run and none is left when nothing is scheduled.
C11_StaleSizeIsScheduled ==
    \A n \in Sized :
        (live[n] /\ \E ax \in Axes : ~ResolvedAsPrescribed(n, ax))
            => ResolutionScheduled(n)

\* A host resize has gone down a chain of two proportional Nodes under the
\* mounted Scene and nothing is scheduled any more.
C11_Witness ==
    /\ pending = <<>>
    /\ hostSize # InitialHostSize
    /\ elementParentSize = hostSize
    /\ \E n \in Sized, m \in Sized :
          /\ live[n] /\ live[m]
          /\ parent[m] = n
          /\ parent[n] # NULL /\ isScene(parent[n])
          /\ sizeMode[n].x = "proportional" /\ sizeMode[m].x = "proportional"
          /\ calculatedSize[parent[n]].x = hostSize.x
          /\ calculatedSize[n].x = Mul(hostSize.x, size[n].x)
          /\ calculatedSize[m].x = Mul(Mul(hostSize.x, size[n].x), size[m].x)
          /\ calculatedSize[m].x > calculatedSize[n].x

\* The tree of the scenario, connected: a under the mounted Scene, b under a.
ScenarioTree ==
    /\ live["s"] /\ live["a"] /\ live["b"]
    /\ parent["a"] = "s"
    /\ parent["b"] = "a"

\* C12: with the host size 800 x 600 observed, default Scene sizing, a
\* proportional with size (0.5, 0.5) under the Scene and b literal with size
\* (100, 50) under a, the settled resolved sizes are 800 x 600 for the Scene,
\* 400 x 300 for a and 100 x 50 for b.
C12_ScenarioSizes ==
    (Settled /\ ScenarioTree /\ elementParentSize = Host800x600) =>
        /\ calculatedSize["s"] = XYZ(Num(800), Num(600), 0)
        /\ calculatedSize["a"] = XYZ(Num(400), Num(300), 0)
        /\ calculatedSize["b"] = XYZ(Num(100), Num(50), 0)

\* The scenario has settled with the host size observed.
C12_Witness ==
    /\ Settled
    /\ ScenarioTree
    /\ elementParentSize = Host800x600
    /\ calculatedSize["a"].x = Num(400)

\* A frame: Motor renders the nodes handed to it and forgets them.
FrameStep ==
    nodesToBeRendered # {} /\ nodesToBeRendered' = {}

\* position + alignPoint x parent's resolved size - mountPoint x own resolved
\* size, on axis ax.
AppliedPosition(n, ax) ==
    position[n][ax] + Mul(alignPoint[n][ax], ResolvedParentSize(n)[ax])
        - Mul(mountPoint[n][ax], calculatedSize[n][ax])

\* The offset from the parent's centre to the node's centre, on axis ax.
CentreOffset(n, ax) ==
    Mul(calculatedSize[n][ax], OneHalf) - Mul(ResolvedParentSize(n)[ax], OneHalf)

\* C13: a frame leaves, for every node it renders that has a parent or is the
\* Scene (whose parent size is the observed host size), the WebGL object at the
\* applied position (position + alignPoint x parent size - mountPoint x own
\* size) plus (own size / 2 - parent size / 2) on every axis, with Y negated;
\* the CSS object of a node not under the Scene's object shows the applied
\* position itself on x and, negated, on y.
C13_AppliedPosition ==
    [][FrameStep =>
          \A n \in {m \in nodesToBeRendered : parent[m] # NULL \/ isScene(m)} :
              /\ three'[n].position.x = AppliedPosition(n, "x") + CentreOffset(n, "x")
              /\ three'[n].position.y = 0 - (AppliedPosition(n, "y") + CentreOffset(n, "y"))
              /\ three'[n].position.z = AppliedPosition(n, "z") + CentreOffset(n, "z")
              /\ (threeCSS'[n].parent # NULL /\ ~childOfScene(Enter, n)) =>
                     /\ threeCSS'[n].position.x = AppliedPosition(n, "x")
                     /\ threeCSS'[n].position.y = 0 - AppliedPosition(n, "y")]_vars

\* b, built with every transform input non-zero, has been rendered under a
\* with both sizes resolved: x = 1 + 0.5 * 400 - 1 * 100 + (50 - 200),
\* y = -(2 + 1 * 300 - 0.5 * 50 + (25 - 150)), z = 3 + 0 - 0.5 * 10 + (5 - 0).
C13_Witness ==
    /\ Settled
    /\ ScenarioTree
    /\ elementParentSize = Host800x600
    /\ position["b"] = XYZ(Num(1), Num(2), Num(3))
    /\ three["b"].position = XYZ(Num(-49), Num(-152), Num(3))
    /\ threeCSS["b"].position.x = Num(101)

\* The rendering B is loaded for n, and for its parent if it has one.
LoadedWithParent(n, loaded) ==
    loaded[n] /\ (parent[n] # NULL => loaded[parent[n]])

\* The world matrix of the object of n is its parent's world matrix composed
\* with its own matrix, or its own matrix alone when n has no parent.
WorldComposed(n, obj) ==
    \A ax \in Axes :
        obj[n].matrixWorld[ax] =
            (IF parent[n] # NULL THEN obj[parent[n]].matrixWorld[ax] ELSE 0)
                + obj[n].position[ax]

\* C14: once the frames have rendered every node handed to Motor, the world
\* matrix of every loaded node is its parent's world matrix composed with its
\* local matrix, and the local matrix alone for a node without parent, for the
\* WebGL and for the CSS objects; with position (10, 0, 0) and default
\* alignPoint and mountPoint the world X of the WebGL object is the parent's
\* world X plus 10 plus (own size / 2 - parent size / 2).
C14_WorldTransform ==
    (Idle /\ nodesToBeRendered = {}) =>
        \A n \in Sized :
            /\ LoadedWithParent(n, glLoaded) => WorldComposed(n, three)
            /\ LoadedWithParent(n, cssLoaded) => WorldComposed(n, threeCSS)
            /\ ( /\ LoadedWithParent(n, glLoaded)
                 /\ parent[n] # NULL
                 /\ position[n] = XYZ(Num(10), 0, 0)
                 /\ alignPoint[n] = XYZ(0, 0, 0)
                 /\ mountPoint[n] = XYZ(0, 0, 0) ) =>
                    three[n].matrixWorld.x =
                        three[parent[n]].matrixWorld.x + Num(10) + CentreOffset(n, "x")

\* With WebGL loaded, a and b at position (10, 0, 0) and the scenario's sizes
\* resolved, the world X of b is 10 + (200 - 400) + 10 + (50 - 200).
C14_Witness ==
    /\ Idle
    /\ nodesToBeRendered = {}
    /\ ScenarioTree
    /\ elementParentSize = Host800x600
    /\ glLoaded["a"] /\ glLoaded["b"] /\ glLoaded["s"]
    /\ position["a"] = XYZ(Num(10), 0, 0)
    /\ position["b"] = XYZ(Num(10), 0, 0)
    /\ three["b"].matrixWorld.x = Num(-330)

\* The Resolved Size of n is available: the Scene's once the size of the
\* element it is mounted in has been observed (until then _elementParentSize
\* is the constructor's placeholder), a Node's when it is literal on every
\* axis or its parent's is.
RECURSIVE SizeAvailable(_, _)
SizeAvailable(n, fuel) ==
    IF isScene(n)
    THEN elementParentSize # XYZ(0, 0, 0)
    ELSE IF \A ax \in Axes : sizeMode[n][ax] = "literal"
         THEN TRUE
         ELSE parent[n] # NULL /\ fuel > 0 /\ SizeAvailable(parent[n], fuel - 1)

\* The Resolved Size of the parent of n is available.
ParentSizeAvailable(n) ==
    IF isScene(n)
    THEN elementParentSize # XYZ(0, 0, 0)
    ELSE parent[n] # NULL /\ SizeAvailable(parent[n], Cardinality(Nodes))

\* C15: a frame skips the transform of every node handed to Motor whose own
\* Resolved Size or whose parent's is not yet available: the position of
\* neither of its objects is written in that frame.
C15_UnavailableSizeSkipped ==
    [][FrameStep =>
          \A n \in nodesToBeRendered :
              ~(SizeAvailable(n, Cardinality(Nodes)) /\ ParentSizeAvailable(n)) =>
                  /\ three'[n].position = three[n].position
                  /\ threeCSS'[n].position = threeCSS[n].position]_vars

\* The objects of one rendering mirror the tree: the object of every loaded
\* node whose parent is loaded is a child of the parent's object, and the
\* children of a loaded node's object are the node's loaded children, in the
\* order of the tree.
Mirrors(obj, loaded) ==
    \A n \in Sized :
        loaded[n] =>
            /\ (parent[n] # NULL /\ loaded[parent[n]]) => obj[n].parent = parent[n]
            /\ obj[n].children = SelectSeq(children[n], LAMBDA c : loaded[c])

\* C16: whenever no microtask is waiting, the WebGL objects and the CSS
\* objects each mirror the tree restricted to the nodes the rendering is
\* loaded for.
C16_ObjectsMirrorTree ==
    Idle => Mirrors(three, glLoaded) /\ Mirrors(threeCSS, cssLoaded)

\* C17: a node holds a WebGL object only while WebGL is loaded for it, and a
\* CSS object only while CSS is loaded for it.
C17_ObjectOnlyWhileLoaded ==
    \A n \in Sized :
        /\ three[n].made => glLoaded[n]
        /\ threeCSS[n].made => cssLoaded[n]

\* The objects of one rendering are the tree under the Scene: every node
\* under the Scene is loaded, its object is the child of its parent's object
\* and the children of its object are the node's children, in the order of
\* the tree and each of them once.
Rebuilt(obj, loaded) ==
    \A n \in Sized :
        "s" \in inclusiveAncestors(n, {}) =>
            /\ loaded[n]
            /\ obj[n].made
            /\ obj[n].parent = parent[n]
            /\ obj[n].children = children[n]

\* C18: a step in which the Scene becomes loaded for a rendering after the
\* rendering had been switched off leaves the objects of that rendering
\* with the structure and the sibling order of the tree under the Scene.
C18_ReactivationRebuilds ==
    [][ /\ ("glLoaded" \in switchedOff /\ ~glLoaded["s"] /\ glLoaded'["s"]) =>
               Rebuilt(three, glLoaded)'
        /\ ("cssLoaded" \in switchedOff /\ ~cssLoaded["s"] /\ cssLoaded'["s"]) =>
               Rebuilt(threeCSS, cssLoaded)' ]_vars

\* The tree is the same after the step as before it.
TreeKept ==
    /\ parent' = parent
    /\ children' = children
    /\ isConnected' = isConnected

\* A step that carries out a switch of a rendering of the Scene and nothing
\* the host reports: the Scene gets loaded or unloaded while no deferred
\* callback and no report of a composed or uncomposed child is waiting.
SwitchStep ==
    /\ deferred = <<>> /\ composed = <<>> /\ uncomposed = <<>>
    /\ glLoaded'["s"] # glLoaded["s"] \/ cssLoaded'["s"] # cssLoaded["s"]

\* C19: neither a write to webgl or enableCss nor the loading or unloading
\* it leads to changes the parent, the children or the isConnected flag of
\* any node.
C19_TogglesKeepTree ==
    [][(webgl' # webgl \/ enableCss' # enableCss \/ SwitchStep) => TreeKept]_vars

\* CSS has been switched off and WebGL on for the tree s > a > b, which is
\* as it was built.
C19_Witness ==
    /\ Idle
    /\ "cssLoaded" \in switchedOff
    /\ ~cssLoaded["s"] /\ ~cssLoaded["a"] /\ ~cssLoaded["b"]
    /\ glLoaded["s"] /\ glLoaded["a"] /\ glLoaded["b"]
    /\ children["s"] = <<"a">> /\ children["a"] = <<"b">>
    /\ parent["a"] = "s" /\ parent["b"] = "a"
    /\ isConnected["a"] /\ isConnected["b"]

\* n is in a Scene that enables the rendering whose flag is given: the Scene
\* is n or an ancestor of n.
InSceneWith(n, flag) ==
    flag /\ "s" \in inclusiveAncestors(n, {})

\* C20: whenever no microtask is waiting, a node with glLoaded is in a Scene
\* whose webgl is true and a node with cssLoaded is in a Scene whose
\* enableCss is true.
C20_LoadedOnlyInEnabledScene ==
    Idle =>
        \A n \in Sized :
            /\ glLoaded[n] => InSceneWith(n, webgl)
            /\ cssLoaded[n] => InSceneWith(n, enableCss)

\* The Scene.
TheScene ==
    CHOOSE n \in Nodes : isScene(n)

\* A step in which a ResizeObserver delivers its observation.
Notified ==
    /\ Idle
    /\ observePending
    /\ ~observePending'
    /\ sizeOps' = sizeOps

\* _calcSize() of the Scene for the element parent size ps.
SceneSizeFor(ps) ==
    [ax \in Axes |->
        IF sizeMode[TheScene][ax] = "literal"
        THEN size[TheScene][ax]
        ELSE Mul(ps[ax], size[TheScene][ax])]

\* C30: a host-size notification whose width or height differs from the
\* recorded element parent size records the new width and height, recomputes
\* the Scene's calculatedSize from them and hands the Scene to Motor with a
\* frame requested; a notification with the recorded width and height leaves
\* the recorded size, every calculatedSize, the nodes to be rendered, the
\* requested frames and the scheduled autoruns as they were.
C30_HostSizeNotification ==
    [][Notified =>
          IF hostSize.x # elementParentSize.x \/ hostSize.y # elementParentSize.y
          THEN /\ elementParentSize'.x = hostSize.x
               /\ elementParentSize'.y = hostSize.y
               /\ calculatedSize'[TheScene] = SceneSizeFor(elementParentSize')
               /\ TheScene \in nodesToBeRendered'
               /\ ticks' = 1
          ELSE UNCHANGED <<elementParentSize, calculatedSize, nodesToBeRendered,
                           willBeRendered, ticks, pending>>]_vars

\* A second, different host size has been observed and the Scene, sized from
\* it, awaits its frame.
C30_Witness ==
    /\ elementParentSize \in HostSizes
    /\ elementParentSize = hostSize
    /\ calculatedSize[TheScene] = SceneSizeFor(hostSize)
    /\ TheScene \in nodesToBeRendered
    /\ sizeOps > 0

\* A notification with the recorded width and height can be delivered.
C30_SameSizeWitness ==
    /\ Idle
    /\ observePending
    /\ elementParentSize.x = hostSize.x
    /\ elementParentSize.y = hostSize.y
    /\ live[TheScene]

\* Number of entries of log for node n of the given type, name and value.
Entries(log, n, type, name, value) ==
    Cardinality({i \in 1..Len(log) :
                    log[i] = [node |-> n, type |-> type, name |-> name,
                              value |-> value]})

\* The event that tells listeners a rendering of a node got loaded, unloaded.
LoadedEvent(B) ==
    IF B = GL THEN "GL_LOAD" ELSE "CSS_LOAD"

UnloadedEvent(B) ==
    IF B = GL THEN "GL_UNLOAD" ELSE "CSS_UNLOAD"

\* In log, every event named name of node n comes after a write of value to
\* the flag of n.
AfterWrite(log, n, name, flag, value) ==
    \A i \in 1..Len(log) :
        log[i] = [node |-> n, type |-> "emit", name |-> name, value |-> TRUE] =>
            \E j \in 1..(i - 1) :
                log[j] = [node |-> n, type |-> "set", name |-> flag, value |-> value]

\* C21: in every step, for each node and each rendering, as many loaded
\* events are emitted as the loaded flag is set, as many unloaded events as
\* it is cleared, and each event follows a write of the flag.
C21_OneEventPerTransition ==
    [][\A n \in Nodes, B \in {GL, CSS} :
           /\ Entries(emitted', n, "emit", LoadedEvent(B), TRUE)
                  = Entries(emitted', n, "set", B.loaded, TRUE)
           /\ Entries(emitted', n, "emit", UnloadedEvent(B), TRUE)
                  = Entries(emitted', n, "set", B.loaded, FALSE)
           /\ AfterWrite(emitted', n, LoadedEvent(B), B.loaded, TRUE)
           /\ AfterWrite(emitted', n, UnloadedEvent(B), B.loaded, FALSE)]_vars

\* The scheduler awaits a frame (Pending) or not (Idle).
SchedulerPending ==
    ticks > 0

\* C22: at most one animation frame is requested at any time, and one is
\* requested exactly when there are nodes to be rendered; the requested
\* frames change only when a node is handed to Motor while none is requested
\* (Idle to Pending, one frame requested) and when the frame runs (Pending to
\* Idle, the nodes to be rendered emptied); a node handed to Motor while a
\* frame is requested joins the nodes to be rendered and requests none.
C22_OneTickArmed ==
    /\ [](ticks = IF nodesToBeRendered = {} THEN 0 ELSE 1)
    /\ [][ /\ (~SchedulerPending /\ SchedulerPending') =>
                 /\ ticks' = 1
                 /\ nodesToBeRendered = {}
                 /\ nodesToBeRendered' # {}
           /\ (SchedulerPending /\ ~SchedulerPending') => FrameStep
           /\ (SchedulerPending /\ ~FrameStep) =>
                 /\ ticks' = 1
                 /\ nodesToBeRendered \subseteq nodesToBeRendered' ]_vars

\* After a frame has run, two nodes were handed to Motor and one frame is
\* requested.
C22_Witness ==
    /\ ticks = 1
    /\ Cardinality(nodesToBeRendered) > 1
    /\ TheScene \notin nodesToBeRendered

\* A microtask checkpoint in which scheduled autoruns re-run.
DrainStep ==
    pending # <<>> /\ pending' = <<>>

\* The size autorun of n.
SizeComputation(n) ==
    [node |-> n, fn |-> "size"]

\* C23: however many times the size of a node was written before the
\* microtask checkpoint, its size autorun is scheduled once, the checkpoint
\* leaves calculatedSize at the size written last on every literal axis and
\* the node among the nodes to be rendered, and the frame renders every node
\* handed to Motor exactly once and forgets it.
C23_BurstResolvedOnce ==
    [][ /\ DrainStep =>
              \A n \in Nodes :
                  Has(pending, SizeComputation(n)) =>
                      /\ Count(pending, SizeComputation(n)) = 1
                      /\ \A ax \in Axes :
                             sizeMode[n][ax] = "literal" =>
                                 calculatedSize'[n][ax] = size[n][ax]
                      /\ n \in nodesToBeRendered'
        /\ FrameStep =>
              \A n \in nodesToBeRendered :
                  /\ Count(toBeRendered(Enter), n) = 1
                  /\ n \notin nodesToBeRendered' ]_vars

\* The size of b, built 10 and resolved 10, has been written twice with no
\* microtask checkpoint in between (20, then 15): its size autorun is
\* scheduled once.
C23_Witness ==
    /\ live["b"]
    /\ sizeOps = 2
    /\ size["b"] = XYZ(Num(15), Num(15), Num(15))
    /\ calculatedSize["b"] = XYZ(Num(10), Num(10), Num(10))
    /\ size["a"] = XYZ(OneHalf, OneHalf, 0)
    /\ sizeMode[TheScene] = SceneSizeMode
    /\ sizeMode["a"] = XYZ("proportional", "proportional", "literal")
    /\ sizeMode["b"] = DefaultSizeMode
    /\ hostSize = Host800x600
    /\ Count(pending, SizeComputation("b")) = 1

\* The burst of C23_Witness has been resolved: after the checkpoint and the
\* frame the calculatedSize of b is 15 and nothing waits.
C23_Resolved ==
    /\ live["b"]
    /\ sizeOps = 2
    /\ size["b"] = XYZ(Num(15), Num(15), Num(15))
    /\ calculatedSize["b"] = XYZ(Num(15), Num(15), Num(15))
    /\ Settled

\* The places of n in seq.
PlacesOf(seq, n) ==
    {i \in 1..Len(seq) : seq[i] = n}

C25_DirtySetDrained ==
    /\ [](ticks = 0 => nodesToBeRendered = {})
    /\ [](\A n \in Nodes : willBeRendered[n] <=> n \in nodesToBeRendered)
    /\ [][ticks' < ticks =>
              /\ nodesToBeRendered' = {}
              /\ \A n \in Nodes : ~willBeRendered'[n]
              /\ ticks' = 0]_vars
    /\ \A n \in Nodes : (n \in nodesToBeRendered) ~> (n \notin nodesToBeRendered)

\* Every write the bound allows has been made and resolved: the Scene is
\* mounted, nothing waits and no frame is requested.
C25_Witness ==
    /\ live[TheScene]
    /\ sizeOps = MaxSizeOps
    /\ Idle
    /\ ticks = 0
    /\ nodesToBeRendered = {}
    /\ \A n \in Nodes : ~willBeRendered[n]

\* The reactive variables of n a caller's step wrote.
Written(n) ==
    {v \in {<<"size", n>>, <<"sizeMode", n>>} :
        \/ v[1] = "size" /\ size'[n] # size[n]
        \/ v[1] = "sizeMode" /\ sizeMode'[n] # sizeMode[n]}

\* The computations registered and not stopped.
Registered ==
    {c \in {AllComputations[i] : i \in 1..Len(AllComputations)} : Running(Enter, c)}

BehaviorScheduled ==
    \E i \in 1..Len(pending) : pending[i].fn \in {"draco", "model"}

EntriesOfType(log, type) ==
    {i \in 1..Len(log) : log[i].type = type}

\* The events of the behavior's element in log.
ModelEvents(log) ==
    {i \in 1..Len(log) : log[i].name \in {"MODEL_LOAD", "PROGRESS", "MODEL_ERROR"}}

\* C29: #version never decreases; a load that finishes with a version older
\* than #version leaves the model, the element's object, the nodes to be
\* rendered and the requested frames as they are and emits nothing; and a
\* step sets a model, adds to the element's object or emits MODEL_LOAD,
\* PROGRESS or MODEL_ERROR only for the load started last, with no unloadGL
\* since.
C29_StaleLoadsDiscarded ==
    [][ /\ gltf'.version >= gltf.version
        /\ \A v \in gltf.loads \ gltf'.loads :
               v # gltf.version =>
                   /\ v < gltf.version
                   /\ gltf'.model = gltf.model
                   /\ three' = three
                   /\ nodesToBeRendered' = nodesToBeRendered
                   /\ ticks' = ticks
                   /\ emitted' = <<>>
        /\ (ModelEvents(emitted') # {} \/ EntriesOfType(emitted', "add") # {}) =>
               /\ gltf.version \in gltf.loads
               /\ gltf'.version = gltf.version
               /\ gltf.isLoadedGL
        /\ (gltf'.model # gltf.model /\ gltf'.model # NoModel) =>
               /\ gltf'.model = gltf.version
               /\ gltf.version \in gltf.loads ]_vars

\* A load started before a restart has finished and was discarded: two
\* loads were started, the first is no longer under way, the second is, and
\* there is no model.
C29_Witness ==
    /\ "discarded" \in gltf.history
    /\ gltf.isLoadedGL
    /\ gltf.version > 1
    /\ gltf.loads = {gltf.version}
    /\ gltf.model = NoModel
    /\ ~three[Element].made
    /\ emitted = <<>>

\* The value a read of n.scene returns in the current state.
\* ------------------------------------------- stream scene graph actions
MaxGraphOps == 6

\* The view's node as its class leaves it: with or without a tempRoot (its
\* own node), with or without an object that commits.
GraphsBuilt ==
    {SceneGraphNode_set([NoGraph EXCEPT !.tempRoot[ViewNode] = t], ViewNode, c) :
         t \in {NULL, ViewNode}, c \in BOOLEAN}

GraphBuilt ==
    /\ BackendTree
    /\ Defaults
    /\ listening = FALSE
    /\ rotation = [n \in Nodes |-> XYZ(0, 0, 0)]
    /\ delivery = NoDelivery
    /\ sceneGraph \in GraphsBuilt

\* One operation of the stream scene graph.
GraphStep(op, node, g) ==
    /\ sceneGraph.ops < MaxGraphOps
    /\ sceneGraph' = [g EXCEPT !.ops = @ + 1, !.last.op = op, !.last.node = node]
    /\ UNCHANGED <<treeVars, sizeVars, nodeVars>>

\* self.add(object) for an object that is no view.
GraphAdd(self, commit) ==
    /\ sceneGraph.made < Len(GraphPool)
    /\ self \in GraphMade(sceneGraph)
    /\ LET node == GraphPool[sceneGraph.made + 1]
       IN  GraphStep("add", node,
               SceneGraphNode_add([sceneGraph EXCEPT !.made = @ + 1,
                                                     !.last.result = "done"], self,
                                  [isView |-> FALSE, node |-> node, commit |-> commit]))

\* self.add(view)
GraphAddView(self) ==
    /\ self \in GraphMade(sceneGraph)
    /\ GraphStep("addView", self,
           SceneGraphNode_add([sceneGraph EXCEPT !.last.result = "done"], self,
                              [isView |-> TRUE, node |-> ViewNode, commit |-> FALSE]))

\* The layout of the object of node starts, with spec.
LayoutStart(node, spec) ==
    /\ node \in sceneGraph.handlers
    /\ LET g == onStart(sceneGraph, node, spec)
       IN  GraphStep("start", node,
               IF g.last.result = "done"
               THEN [g EXCEPT !.started = @ \cup {node}]
               ELSE g)

\* The layout of the object of node, which has started, changes to spec.
LayoutUpdate(node, spec) ==
    /\ node \in sceneGraph.started
    /\ GraphStep("update", node, onUpdate(sceneGraph, node, spec))

\* The layout of the object of node ends.
LayoutEnd(node) ==
    /\ node \in sceneGraph.handlers
    /\ LET g == onEnd(sceneGraph, node)
       IN  GraphStep("end", node,
               IF g.last.result = "done"
               THEN [g EXCEPT !.started = @ \ {node}]
               ELSE g)

\* The size of the object of node changes.
Resize(node) ==
    /\ node \in sceneGraph.handlers
    /\ GraphStep("resize", node, onDirty(sceneGraph, node))

\* The object of node emits dirty.
Dirty(node) ==
    /\ node \in sceneGraph.handlers
    /\ GraphStep("dirty", node, onDirty(sceneGraph, node))

\* Objects are added to nodes, the view is added to nodes, and the objects
\* that commit emit their events, in any order.
GraphNext ==
    \/ \E self \in GraphNodes, commit \in BOOLEAN : GraphAdd(self, commit)
    \/ \E self \in GraphNodes : GraphAddView(self)
    \/ \E node \in GraphNodes, spec \in Layouts : LayoutStart(node, spec)
    \/ \E node \in GraphNodes, spec \in Layouts : LayoutUpdate(node, spec)
    \/ \E node \in GraphNodes : LayoutEnd(node)
    \/ \E node \in GraphNodes : Resize(node)
    \/ \E node \in GraphNodes : Dirty(node)

GraphSpec ==
    GraphBuilt /\ [][GraphNext]_vars

SceneRead(n) ==
    getScene(Enter, n, Cardinality(Nodes)).scene[n]

\* The Scene at the top of the current parent chain of n (a Scene is its own
\* top), NULL when the chain holds no Scene.
TopScene(n) ==
    IF isScene(n)
    THEN n
    ELSE IF \E m \in Ancestors(n) : isScene(m)
         THEN CHOOSE m \in Ancestors(n) : isScene(m)
         ELSE NULL

\* C31: in every state reached by add / removeNode calls, for every Scene and
\* Node the scene accessor returns the Scene at the top of the node's current
\* parent chain, and null when that chain holds no Scene.
C31_SceneIsTopOfChain ==
    \A n \in Sized : SceneRead(n) = TopScene(n)

\* The camera of the camera element activated last among the active ones,
\* the default camera when none is active.
LastActivated ==
    IF cameras.activated = <<>>
    THEN DefaultCamera
    ELSE cameras.activated[Len(cameras.activated)]

\* C32: after any sequence of _addCamera / _removeCamera calls the Scene's
\* current camera is that of the camera element activated last among those
\* still active, and the default camera when none is active.
C32_CurrentCameraIsLastActivated ==
    cameras.threeCamera = LastActivated

\* C33: whenever connected(child) / childConnected(parent, child) is
\* delivered, child is at that moment a child of that parent, and whenever
\* disconnected(child) / childDisconnected(parent, child) is delivered, child
\* is at that moment not a child of that parent.
C33_CallbacksMatchTree ==
    \A i \in 1..Len(invoked) :
        LET e == invoked[i]
        IN  /\ e.cb = "childConnected" =>
                   parent[e.arg] = e.on /\ Has(children[e.on], e.arg)
            /\ e.cb = "childDisconnected" =>
                   parent[e.arg] # e.on /\ ~Has(children[e.on], e.arg)

\* The closures handed to defer() by a call that left the state r.
NewlyDeferred(r) ==
    SubSeq(r.deferred, Len(deferred) + 1, Len(r.deferred))

\* The call that left the state r changed nothing.
NothingChanged(r) ==
    /\ r.parent = parent
    /\ r.children = children
    /\ r.isConnected = isConnected
    /\ r.deferred = deferred

\* p.removeAllChildren() in the current state.
RemoveAllPost(p) ==
    LET r == removeAllChildren(Enter, p)
    IN  IF children[p] = <<>>
        THEN r.thrown /\ NothingChanged(r)
        ELSE /\ ~r.thrown
             /\ r.children[p] = <<>>
             /\ \A c \in Nodes :
                    IF Has(children[p], c)
                    THEN /\ r.parent[c] = NULL
                         /\ ~r.isConnected[c]
                         /\ Cardinality({i \in DOMAIN NewlyDeferred(r) :
                                /\ NewlyDeferred(r)[i].type = "disconnected"
                                /\ NewlyDeferred(r)[i].child = c
                                /\ NewlyDeferred(r)[i].parent = p}) = 1
                    ELSE /\ r.parent[c] = parent[c]
                         /\ r.isConnected[c] = isConnected[c]
             /\ Len(NewlyDeferred(r)) = Len(children[p])

\* p.removeChildren(ns) in the current state, every node of ns a child of p.
RemoveListPost(p, ns) ==
    LET r == removeChildren(Enter, p, ns)
        listed == {ns[i] : i \in DOMAIN ns}
    IN  /\ r.children[p] = SelectSeq(children[p], LAMBDA x : x \notin listed)
        /\ \A q \in Nodes \ {p} : r.children[q] = children[q]
        /\ \A c \in Nodes :
               r.parent[c] = IF c \in listed THEN NULL ELSE parent[c]

\* C34: removeAllChildren on a node with children leaves it without a child,
\* every former child with parent null and __isConnected false, and hands one
\* disconnected closure per former child to defer(); on a node without
\* children it throws and changes nothing. removeChildren(list) with every
\* listed node a child removes the listed nodes and no other and keeps the
\* order of the children that stay.
C34_BulkRemoval ==
    \A p \in Nodes :
        /\ RemoveAllPost(p)
        /\ \A ns \in Pairs :
               (\A i \in DOMAIN ns : parent[ns[i]] = p) => RemoveListPost(p, ns)

\* t.removeAllChildren() has removed the three children t was built with:
\* three disconnected closures wait.
C34_Witness ==
    /\ lastCall.op = "removeAllChildren"
    /\ lastCall.self = "t"
    /\ lastCall.result = "removed"
    /\ children["t"] = <<>>
    /\ calls = 3
    /\ Len(deferred) = 3

\* The CSS object of n is a child of the CSS object of a Scene: the question
\* _calculateMatrix asks.
CssChildOfScene(n) ==
    childOfScene(Enter, n)

\* The CSS rotation of n has X and Z negated: the variant of a child of the
\* Scene.
CssRotationNegated(n) ==
    /\ threeCSS[n].rotation.x = 0 - rotation[n].x
    /\ threeCSS[n].rotation.z = 0 - rotation[n].z

\* C35: whenever a frame writes the CSS position of a rotated node, with the
\* X and Y centre offset of a child of the Scene or without it, the CSS
\* rotation the node holds is of the same variant: X and Z negated exactly
\* when the centre offset was applied.
C35_PositionAndRotationAgree ==
    [][FrameStep =>
          \A n \in Sized :
              (InSeq(toBeRendered(Enter), n) /\ rotation[n].x # 0) =>
                  (CssChildOfScene(n)' <=> CssRotationNegated(n)')]_vars

\* The condition of #startOrStopParentSizeObservation() holds for the Scene.
ObservationCondition ==
    /\ enableCss \/ webgl
    /\ sizeMode[TheScene].x = "proportional" \/ sizeMode[TheScene].y = "proportional"

\* C36: at most one ResizeObserver of the Scene is active at any time, and
\* once the autoruns have run none is active while the Scene is disconnected
\* or the observation condition is false.
C36_OneHostSizeObserver ==
    /\ ~(observing /\ staleObserver)
    /\ Idle => ((observing \/ staleObserver) => (live[TheScene] /\ ObservationCondition))

\* A GL event of n waits to be delivered.
InFlight(n) ==
    \E i \in DOMAIN delivery.queue : delivery.queue[i].node = n

\* C37: once every GL event of a node is delivered, the event delivered last
\* tells the node's _glLoaded: GL_LOAD when it is loaded, GL_UNLOAD when it
\* is not.
C37_LastEventMatchesState ==
    \A n \in Sized :
        (delivery.heard[n] # "" /\ ~InFlight(n)) =>
            (delivery.heard[n] = "GL_LOAD" <=> glLoaded[n])

\* C38: under every interleaving of attribute writes, loadGL / unloadGL and
\* loader callbacks, at most one model taken by #setModel is undisposed, and
\* it is the model held; the model held is that of the load started last;
\* no model is held while GL is not loaded; and a model is accepted only
\* when none is held, every earlier one disposed.
C38_OneCurrentModel ==
    /\ [](/\ Cardinality(gltf.undisposed) <= 1
          /\ gltf.undisposed = IF gltf.model = NoModel THEN {} ELSE {gltf.model}
          /\ gltf.model # NoModel => gltf.model = gltf.version
          /\ ~gltf.isLoadedGL => gltf.model = NoModel)
    /\ [][(gltf.model' # gltf.model /\ gltf.model' # NoModel) =>
              (gltf.model = NoModel /\ gltf.undisposed = {})]_vars

\* A model is held that was accepted after an earlier one was disposed, GL
\* loaded all along.
C38_Witness ==
    /\ gltf.model # NoModel
    /\ "disposed" \in gltf.history
    /\ gltf.isLoadedGL
    /\ gltf.version = 3

\* C39: after any sequence of add / removeNode calls __isConnected of a node
\* is true exactly when the node has a parent; add and removeNode change it
\* on the node they are handed only, not on its descendants nor on the
\* parent.
C39_ConnectedIffParented ==
    /\ [](\A n \in Nodes : isConnected[n] <=> parent[n] # NULL)
    /\ [][(IsCall("add") \/ IsCall("removeNode")) =>
              \A n \in Nodes \ {lastCall'.child} :
                  isConnected'[n] = isConnected[n]]_vars

\* a, which has the child b, has been removed from the Scene: a is not
\* connected, b still is.
C39_Witness ==
    /\ lastCall.op = "removeNode"
    /\ lastCall.result = "removed"
    /\ lastCall.child = "a"
    /\ parent["a"] = NULL
    /\ parent["b"] = "a"
    /\ ~isConnected["a"]
    /\ isConnected["b"]

\* The ids that are keys of root.specs.
SpecKeys(g, root) ==
    {id \in GraphNodes : g.specs[root][id] # Absent}

\* The last step ran the handler op of a node and it returned.
Handled(op) ==
    /\ sceneGraph'.ops = sceneGraph.ops + 1
    /\ sceneGraph'.last.op = op
    /\ sceneGraph'.last.result = "done"

\* The registries of every root but the one given are left as they were.
OtherRootsKept(root) ==
    \A r \in GraphRoots \ {root} :
        /\ sceneGraph'.objects[r] = sceneGraph.objects[r]
        /\ sceneGraph'.specs[r] = sceneGraph.specs[r]
        /\ sceneGraph'.dirtyObjects[r] = sceneGraph.dirtyObjects[r]

\* C40: for every object that commits, whose layout updates only between a
\* start and the following end, objects and specs of every root have the same
\* keys; the id of the object is a key of both registries of its root from
\* its start until its end and a key of neither after its end; every resize
\* and every dirty event appends the object to dirtyObjects of its root; the
\* root of each is the one _getRootNode finds through root or the tempRoot
\* chain.
C40_RegistriesAgree ==
    /\ [](\A r \in GraphRoots :
              sceneGraph.objects[r] = SpecKeys(sceneGraph, r))
    /\ [](\A n \in sceneGraph.started :
              LET root == getRootNode(sceneGraph, n)
              IN  HasRegistries(root) =>
                      /\ n \in sceneGraph.objects[root]
                      /\ n \in SpecKeys(sceneGraph, root))
    /\ [](\A n \in sceneGraph.handlers \ sceneGraph.started :
              \A r \in GraphRoots :
                  /\ n \notin sceneGraph.objects[r]
                  /\ n \notin SpecKeys(sceneGraph, r))
    /\ [][\A n \in GraphNodes :
              LET root == getRootNode(sceneGraph, n)
              IN  /\ (Handled("start") /\ sceneGraph'.last.node = n) =>
                          /\ n \in sceneGraph'.objects[root]
                          /\ n \in SpecKeys(sceneGraph', root)
                          /\ OtherRootsKept(root)
                  /\ (Handled("update") /\ sceneGraph'.last.node = n) =>
                          /\ n \in SpecKeys(sceneGraph', root)
                          /\ OtherRootsKept(root)
                  /\ (Handled("end") /\ sceneGraph'.last.node = n) =>
                          /\ n \notin sceneGraph'.objects[root]
                          /\ n \notin SpecKeys(sceneGraph', root)
                          /\ OtherRootsKept(root)
                  /\ ((Handled("resize") \/ Handled("dirty"))
                          /\ sceneGraph'.last.node = n) =>
                          /\ sceneGraph'.dirtyObjects[root] =
                                 Append(sceneGraph.dirtyObjects[root], n)
                          /\ OtherRootsKept(root)]_vars

====
